---------------------------- MODULE Spec2Model ----------------------------
(***************************************************************************)
(* Model of the asynchronous data-access layer of the website-uptime bot:  *)
(*   SQLManageConnections  (sql/sql_connections.py)                        *)
(*   SQLInjection          (sql/sql_injection.py)                          *)
(*   SQLSanitiseFunctions  (sql/sql_sanitisation_functions.py)             *)
(*   SQLQueryBoilerplates  (sql/sql_query_boilerplates.py)                 *)
(*   SQL (the facade)      (sql/sql_manager.py)                            *)
(*                                                                         *)
(* Scheduling follows asyncio: one task runs at a time (variable running)  *)
(* and keeps the event loop until it suspends on an engine future or on    *)
(* the manager's asyncio.Lock.  aiosqlite runs every call of a connection  *)
(* on one worker thread in submission order, so an engine call takes       *)
(* effect when it is submitted and the submitting task resumes later.      *)
(*                                                                         *)
(* Strings are sequences of tokens; a token is an indivisible piece of     *)
(* text, so "x in string" of the source is membership of a token.          *)
(***************************************************************************)
EXTENDS Naturals, Sequences, FiniteSets, TLC

\* ------------------------------------------------------------------ bounds
NumTasks == 2
MaxCalls == 3
MaxFaults == 1
MaxBatchFaults == 2
MaxConn == 2
MaxRows == 2
MaxPieces == 2
MaxItems == 2
MaxValue == 3
MaxCells == 3
MaxDiscordErrors == 4
NumProcs == 3
TickSeconds == 400
MaxTime == 800
MaxCycles == 3
MaxBoots == 3
MaxEmbedItems == 27
MaxMessages == 3

Tasks == 1..NumTasks
Procs == 1..NumProcs
ConnIds == 1..MaxConn

\* --------------------------------------------------------------- constants
success == 0
error == 84

VARIABLES
    connection,     \* SQLManageConnections.connection: 0 is None, else a connection id
    lockHolder,     \* SQLManageConnections._lock: the task holding it, 0 when free
    waiters,        \* SQLManageConnections._lock: tasks waiting, in arrival order
    running,        \* the task that holds the event loop, 0 between steps
    task,           \* per task: call stack and locals of the coroutine it runs
    calls,          \* number of top-level calls started so far
    facade,         \* SQL: whether create was called, and which helpers are bound
    connOpen,       \* engine: connections that are open
    nextConn,       \* engine: next connection id aiosqlite.connect hands out
    db,             \* engine: the committed table (whether it exists, its rows)
    txn,            \* engine: per connection, the open transaction and its table
    faults,         \* engine: number of errors the engine has raised so far
    section,        \* history: task whose run_and_commit executed and has not committed yet
    intruded,       \* history: an engine step of another run_and_commit fell in a section
    opened,         \* history: initialise_pool succeeded and destroy_pool not called since
    lockfile,       \* wsgi_lock: the file at LOCKFILE (whether it exists, what it holds)
    proc,           \* wsgi_lock: per host process, its position in acquire_lockfile
    now,            \* wsgi_lock: time.time()
    argument,       \* SQLInjection: the string handed to the checks
    verdict,        \* SQLInjection: per check, what it returned for argument
    returned,       \* SQLSanitiseFunctions: what a call on argument returned
    bot,            \* DiscordBot: the client, the message and the _send_message call
    allowed,        \* engine: number of errors the engine raises at most in this run
    cycle,          \* DiscordBot: one website's message over the refresh cycles
    handler         \* MessageHandler: boot_called, processed_json and what run did

vars == <<connection, lockHolder, waiters, running, task, calls, facade, connOpen,
          nextConn, db, txn, faults, section, intruded, opened,
          lockfile, proc, now, argument, verdict, returned, bot, allowed,
          cycle, handler>>

mgrVars == <<connection, lockHolder, waiters>>
guardVars == <<argument, verdict, returned, bot, allowed, cycle, handler>>
hostVars == <<lockfile, proc, now, guardVars>>
callerVars == <<calls, facade, hostVars>>
engineVars == <<connOpen, nextConn, db, txn, faults>>
ghostVars == <<section, intruded, opened>>


\* ------------------------------------------------------------ text helpers
\* The position of the first token tok in s, 0 when s does not hold it.
IndexOf(s, tok) ==
    IF \E i \in 1..Len(s) : s[i] = tok
    THEN CHOOSE i \in 1..Len(s) : s[i] = tok /\ \A j \in 1..(i - 1) : s[j] # tok
    ELSE 0

\* s without the tokens of the set drop.
RECURSIVE DropTokens(_, _)
DropTokens(s, drop) ==
    IF s = <<>> THEN <<>>
    ELSE IF Head(s) \in drop THEN DropTokens(Tail(s), drop)
    ELSE <<Head(s)>> \o DropTokens(Tail(s), drop)

\* ", ".join(parts) and " AND ".join(parts)
RECURSIVE Join(_, _)
Join(parts, sep) ==
    IF parts = <<>> THEN <<>>
    ELSE IF Len(parts) = 1 THEN parts[1]
    ELSE parts[1] \o <<sep>> \o Join(Tail(parts), sep)

\* s.split(sep) for a token sep
RECURSIVE Split(_, _)
Split(s, sep) ==
    LET i == IndexOf(s, sep)
    IN  IF i = 0 THEN <<s>>
        ELSE <<SubSeq(s, 1, i - 1)>> \o Split(SubSeq(s, i + 1, Len(s)), sep)

\* The tokens standing for the back-tick and the single quote characters.
BT == "<backtick>"
SQ == "<quote>"
SQSQ == "<quote><quote>"

\* ---------------------------------------------------------------- engine
\* The embedded engine behind aiosqlite: one table, rows of two cells.
TableName == <<"widgets">>
ColumnNames == << <<"id">>, <<"name">> >>
Null == <<"\\null">>
NoTxn == [open |-> FALSE, tbl |-> [exists |-> FALSE, rows |-> <<>>]]
ErrClasses == {"programming", "integrity", "operational", "other"}

\* The table a statement on connection c sees.
View(c) == IF txn[c].open THEN txn[c].tbl ELSE db

\* The table as the engine holds it; DDL is part of the transaction.
NoTable == [exists |-> FALSE, rows |-> <<>>]
TableOf(rows) == [exists |-> TRUE, rows |-> rows]

\* cursor.description is not None: the statement yields a result set.
HasDescription(text) ==
    text # <<>> /\ Head(text) \in {"SELECT ", "SELECT COUNT(", "PRAGMA table_info('", "SELECT name, sql FROM sqlite_master", "SELECT sql FROM sqlite_master", "SELECT name FROM sqlite_master"}

ColumnIndex(col) ==
    LET c == DropTokens(col, {" ", BT})
    IN  IF \E i \in 1..Len(ColumnNames) : ColumnNames[i] = c
        THEN CHOOSE i \in 1..Len(ColumnNames) : ColumnNames[i] = c
        ELSE 0

\* The literal of a right-hand side: outer quotes stripped, a doubled quote read as one.
Literal(rhs) ==
    LET r == DropTokens(rhs, {})
    IN  IF Len(r) >= 2 /\ r[1] = SQ /\ r[Len(r)] = SQ
        THEN [i \in 1..(Len(r) - 2) |-> IF r[i + 1] = SQSQ THEN SQ ELSE r[i + 1]]
        ELSE DropTokens(r, {" "})

\* A predicate the engine accepts: empty, or column = literal.
WhereOk(w) ==
    \/ w = <<>>
    \/ /\ IndexOf(w, "=") > 1
       /\ ColumnIndex(SubSeq(w, 1, IndexOf(w, "=") - 1)) # 0

WhereMatches(w, row) ==
    \/ w = <<>>
    \/ LET i == IndexOf(w, "=")
       IN  row[ColumnIndex(SubSeq(w, 1, i - 1))] = Literal(SubSeq(w, i + 1, Len(w)))

\* The parts of a statement text.
AfterToken(text, tok) ==
    IF IndexOf(text, tok) = 0 THEN <<>> ELSE SubSeq(text, IndexOf(text, tok) + 1, Len(text))
BeforeToken(text, tok) ==
    IF IndexOf(text, tok) = 0 THEN text ELSE SubSeq(text, 1, IndexOf(text, tok) - 1)
WherePart(text) == AfterToken(text, " WHERE ")

SelectColumns(text) == Split(BeforeToken(Tail(text), " FROM "), ", ")
SelectTable(text) == BeforeToken(AfterToken(text, " FROM "), " WHERE ")
InsertTable(text) == BeforeToken(Tail(text), " (")
InsertColumns(text) == Split(BeforeToken(AfterToken(text, " ("), ") VALUES "), ", ")
UpdateTable(text) == BeforeToken(Tail(text), " SET ")
UpdateColumns(text) ==
    LET parts == Split(BeforeToken(AfterToken(text, " SET "), " WHERE "), ", ")
    IN  [i \in 1..Len(parts) |-> BeforeToken(parts[i], " = ?")]
DeleteTable(text) == BeforeToken(Tail(text), " WHERE ")

ColumnsOk(cols) == \A i \in 1..Len(cols) : cols[i] = <<"*">> \/ ColumnIndex(cols[i]) # 0

\* The number of "?" in a statement text.
RECURSIVE CountToken(_, _)
CountToken(s, tok) ==
    IF s = <<>> THEN 0
    ELSE (IF Head(s) = tok THEN 1 ELSE 0) + CountToken(Tail(s), tok)
Markers(text) == CountToken(text, "?") + CountToken(text, " = ?")

\* The quoted name of a DDL statement, quotes dropped.
DdlTable(text) == DropTokens(BeforeToken(Tail(text), " ("), {SQ, ";"})

\* The statement names a table and columns the engine knows and is well
\* formed (else sqlite3 raises OperationalError).
StatementOk(text, tbl) ==
    IF text = <<>> THEN FALSE
    ELSE IF Head(text) = "SELECT " THEN
        /\ tbl.exists /\ SelectTable(text) = TableName
        /\ ColumnsOk(SelectColumns(text)) /\ WhereOk(WherePart(text))
    ELSE IF Head(text) = "SELECT COUNT(" THEN
        /\ tbl.exists /\ BeforeToken(AfterToken(text, ") FROM "), " WHERE ") = TableName
        /\ ColumnsOk(Split(BeforeToken(Tail(text), ") FROM "), ", "))
        /\ WhereOk(WherePart(text))
    ELSE IF Head(text) = "INSERT INTO " THEN
        /\ tbl.exists /\ InsertTable(text) = TableName /\ ColumnsOk(InsertColumns(text))
        /\ ~(\E i \in 1..Len(InsertColumns(text)) : InsertColumns(text)[i] = <<"*">>)
    ELSE IF Head(text) = "UPDATE " THEN
        /\ tbl.exists /\ UpdateTable(text) = TableName /\ ColumnsOk(UpdateColumns(text))
        /\ ~(\E i \in 1..Len(UpdateColumns(text)) : UpdateColumns(text)[i] = <<"*">>)
        /\ WhereOk(WherePart(text))
    ELSE IF Head(text) = "DELETE FROM " THEN
        tbl.exists /\ DeleteTable(text) = TableName /\ WhereOk(WherePart(text))
    ELSE IF Head(text) = "CREATE TABLE IF NOT EXISTS " THEN
        DdlTable(text) # <<>>
    ELSE Head(text) \in {"DROP TABLE IF EXISTS ", "DROP TRIGGER IF EXISTS ",
                         "CREATE TRIGGER ", "PRAGMA table_info('",
                         "SELECT name, sql FROM sqlite_master",
                         "SELECT sql FROM sqlite_master",
                         "SELECT name FROM sqlite_master"}

\* The bindings supplied match the markers (else sqlite3 raises ProgrammingError).
BindOk(text, params) == Len(params) = Markers(text)

\* The cell of column index k in a row written through the listed columns.
WrittenCell(cols, cells, k, old) ==
    IF \E i \in 1..Len(cols) : ColumnIndex(cols[i]) = k
    THEN cells[CHOOSE i \in 1..Len(cols) : ColumnIndex(cols[i]) = k]
    ELSE old

\* Rows an INSERT adds: params cut into groups of Len(cols) cells.
InsertedRows(cols, params) ==
    LET n == Len(cols)
    IN  [r \in 1..(Len(params) \div n) |->
            LET cells == SubSeq(params, (r - 1) * n + 1, r * n)
            IN  [k \in 1..Len(ColumnNames) |-> WrittenCell(cols, cells, k, Null)]]

\* Rows a SELECT returns.
ProjectRow(cols, row) ==
    IF cols = << <<"*">> >> THEN row
    ELSE [i \in 1..Len(cols) |-> row[ColumnIndex(cols[i])]]

SelectedRows(text, rows) ==
    LET keep(row) == WhereMatches(WherePart(text), row)
        hit == SelectSeq(rows, keep)
    IN  [i \in 1..Len(hit) |-> ProjectRow(SelectColumns(text), hit[i])]

\* The rows after a write statement.
AppliedRows(text, params, rows) ==
    IF Head(text) = "INSERT INTO " THEN rows \o InsertedRows(InsertColumns(text), params)
    ELSE IF Head(text) = "UPDATE " THEN
        [i \in 1..Len(rows) |->
            IF WhereMatches(WherePart(text), rows[i])
            THEN [k \in 1..Len(ColumnNames) |-> WrittenCell(UpdateColumns(text), params, k, rows[i][k])]
            ELSE rows[i]]
    ELSE IF Head(text) = "DELETE FROM " THEN
        LET keep(row) == ~WhereMatches(WherePart(text), row) IN SelectSeq(rows, keep)
    ELSE rows

\* The table after a statement: CREATE TABLE IF NOT EXISTS keeps an existing
\* table, DROP TABLE IF EXISTS removes it.
Applied(text, params, tbl) ==
    IF Head(text) = "CREATE TABLE IF NOT EXISTS "
    THEN (IF DdlTable(text) = TableName /\ ~tbl.exists THEN TableOf(<<>>) ELSE tbl)
    ELSE IF Head(text) = "DROP TABLE IF EXISTS "
    THEN (IF DdlTable(text) = TableName THEN NoTable ELSE tbl)
    ELSE [tbl EXCEPT !.rows = AppliedRows(text, params, tbl.rows)]

\* The schema rows of PRAGMA table_info: (cid, name, type) per column.
TableInfo ==
    [i \in 1..Len(ColumnNames) |-> << <<"cid">>, ColumnNames[i], <<"TEXT">> >>]

\* The rows a statement with a result set returns.
Fetched(text, tbl) ==
    IF Head(text) = "SELECT " THEN SelectedRows(text, tbl.rows)
    ELSE IF Head(text) = "SELECT COUNT(" THEN
        << << <<ToString(Len(SelectedRows(<<"SELECT ", "*", " FROM ">> \o AfterToken(text, ") FROM "), tbl.rows)))>> >> >>
    ELSE IF Head(text) = "PRAGMA table_info('" THEN
        (IF tbl.exists /\ DropTokens(Tail(text), {"');"}) = TableName THEN TableInfo ELSE <<>>)
    ELSE <<>>

\* A call on connection c or on a cursor of it is served only while c is
\* open; after close() the call raises ValueError.
UsableAlways(c) == TRUE
Usable(c) == c \in connOpen

\* The results an engine call on connection c may complete with: "closed" when
\* the connection was closed (aiosqlite raises ValueError), else "ok" or one
\* of the sqlite3 error classes in cls while the fault budget lasts.
Outcomes(c, cls) ==
    IF ~Usable(c) THEN {"closed"}
    ELSE {"ok"} \cup (IF faults < allowed THEN cls ELSE {})

FaultsAfter(e) == IF e \in ErrClasses THEN faults + 1 ELSE faults


\* An execute of statement q on connection c: a closed connection, a statement
\* the engine rejects or a full table decide the result; else the engine may
\* raise any class while the fault budget lasts.  (used_closed of a task
\* records that its cursor's connection was closed when it executed.)
IsWrite(text) ==
    text # <<>> /\ Head(text) \in {"INSERT INTO ", "UPDATE ", "DELETE FROM ",
                                    "CREATE TABLE IF NOT EXISTS ", "DROP TABLE IF EXISTS "}
Accepted(c, q) == StatementOk(q.text, View(c)) /\ BindOk(q.text, q.params)
Fits(c, q) == ~IsWrite(q.text) \/ Len(Applied(q.text, q.params, View(c)).rows) <= MaxRows
ExecOutcomes(c, q) ==
    IF ~Usable(c) THEN {"closed"}
    ELSE IF ~StatementOk(q.text, View(c)) THEN {"operational"}
    ELSE IF ~BindOk(q.text, q.params) THEN {"programming"}
    ELSE IF ~Fits(c, q) THEN {"operational"}
    ELSE {"ok"} \cup (IF faults < allowed THEN ErrClasses ELSE {})
Injected(c, q, e) ==
    e \in ErrClasses /\ c \in connOpen /\ Accepted(c, q) /\ Fits(c, q)

\* ------------------------------------------------------- SQLInjection
symbols == {";", "--", "/*", "*/"}
keywordsAnyCase == {"SELECT", "INSERT", "UPDATE", "DELETE", "DROP", "CREATE", "ALTER",
                    "TABLE", "UNION", "JOIN", "WHERE", "drop"}
keywords == {"SELECT", "INSERT", "UPDATE", "DELETE", "DROP", "CREATE", "ALTER",
             "TABLE", "UNION", "JOIN", "WHERE"}
logic_gates == {"OR", "AND", "NOT"}
\* self.all: the keywords, the symbols and the keywords again
all == keywords \cup symbols \cup keywords

\* "x in string" for the tokens of a set
Contains(string, toks) == \E i \in 1..Len(string) : string[i] \in toks

\* base64.b64decode(string, validate=True) succeeds: every character is of
\* the base64 alphabet and the length is a multiple of four.  Base64Runs gives
\* the length of the pieces that are runs of the alphabet.
Base64Runs == [QUJD |-> 4, DROP |-> 4, drop |-> 4, OR |-> 2, x |-> 1]
RECURSIVE Base64Length(_)
Base64Length(string) ==
    IF string = <<>> THEN 0 ELSE Base64Runs[Head(string)] + Base64Length(Tail(string))
is_base64(string) ==
    /\ \A i \in 1..Len(string) : string[i] \in DOMAIN Base64Runs
    /\ Base64Length(string) % 4 = 0

check_if_symbol_sql_injection(string) ==
    IF string = Null THEN FALSE
    ELSE IF Contains(string, {";base64"}) THEN is_base64(string)
    ELSE Contains(string, symbols)

check_if_command_sql_injection(string) ==
    IF string = Null THEN FALSE ELSE Contains(string, keywords)

check_if_logic_gate_sql_injection(string) ==
    IF string = Null THEN FALSE ELSE Contains(string, logic_gates)

check_if_symbol_and_command_injection(string) ==
    check_if_symbol_sql_injection(string) \/ check_if_command_sql_injection(string)

check_if_symbol_and_logic_gate_injection(string) ==
    check_if_symbol_sql_injection(string) \/ check_if_logic_gate_sql_injection(string)

check_if_command_and_logic_gate_injection(string) ==
    check_if_command_sql_injection(string) \/ check_if_logic_gate_sql_injection(string)

check_if_sql_injection(string) ==
    IF string = Null THEN FALSE
    ELSE IF Contains(string, {";base64"}) THEN is_base64(string)
    ELSE Contains(string, all)

\* Python values as the scan of a collection tells them apart: None, a str
\* (its pieces), a number (the pieces of its str()), a list (its items) and
\* anything else.
PyNone == [type |-> "None", str |-> <<>>, items |-> <<>>]
PyOther == [type |-> "dict", str |-> <<>>, items |-> <<>>]
PyStr(string) ==
    IF string = Null THEN PyNone ELSE [type |-> "str", str |-> string, items |-> <<>>]
PyInt(digits) == [type |-> "int", str |-> <<digits>>, items |-> <<>>]
PyList(items) == [type |-> "list", str |-> <<>>, items |-> items]
\* a list of strings
Strings(array) == PyList([i \in 1..Len(array) |-> PyStr(array[i])])

\* over a string, a number or a (nested) list
RECURSIVE check_if_injections_in_strings(_)
check_if_injections_in_strings(array_of_strings) ==
    IF array_of_strings.type = "None" THEN FALSE
    ELSE IF array_of_strings.type = "list"
    THEN \E i \in 1..Len(array_of_strings.items) :
            LET item == array_of_strings.items[i]
            IN  IF item.type = "list" THEN check_if_injections_in_strings(item)
                ELSE IF item.type # "str" THEN TRUE
                ELSE check_if_sql_injection(item.str)
    ELSE IF array_of_strings.type \in {"str", "int"}
    THEN check_if_sql_injection(array_of_strings.str)
    ELSE FALSE

\* The predicates by name, and the answers a caller has had from them.
Checks == {"symbol", "command", "logic_gate", "symbol_and_command",
           "symbol_and_logic_gate", "command_and_logic_gate", "sql_injection",
           "injections_in_strings"}
NoVerdict == [c \in Checks |-> "none"]
\* ------------------------------------------------------------ DiscordBot
\* The bot before a _send_message call: discord_client (None when FALSE), the
\* message's channel id (0 is None), the channel the client has cached, and
\* the locals of the call: recall of the _send_message frame that runs,
\* recall of the channel lookup, the channel found, channel.send calls made,
\* errors Discord has raised, what the call returned, the stored message id,
\* and the fetch_channel calls of the _get_channel_connection call that runs.
NewBot ==
    [pc |-> "idle", discord_client |-> TRUE, message_channel |-> 7, cached |-> "None",
     recall |-> TRUE, fetch_recall |-> TRUE, channel |-> "None", sends |-> 0,
     errors |-> 0, result |-> "none", message_id |-> 0, fetches |-> 0]
Channels == {"TextChannel", "VoiceChannel"}

\* One website's message before the first refresh cycle: the id stored in the
\* messages table (0 is no id), the DiscordMessage of the cycle that runs and
\* its message_id, the messages that exist in the channel, the id Discord
\* gives the next message, the cycles started, and of the cycle that ran
\* last: the message it sent (0 is none) and whether a write of the id failed.
NewCycle ==
    [pc |-> "idle", stored |-> 0, message_id |-> 0, live |-> {}, next_id |-> 1,
     cycles |-> 0, sent |-> 0, db_failed |-> FALSE]

\* The MessageHandler: whether it was made and with which message_schema,
\* boot_called and processed_json, then of the calls made: what the last
\* boot_up returned, whether a boot_up has returned SUCCESS, what the run
\* since the last boot_up returned and how many websites it checked, and the
\* number of boot_up calls.
NewHandler ==
    [made |-> FALSE, message_schema |-> [kind |-> "list", items |-> <<>>], boot_called |-> FALSE,
     processed_json |-> <<>>, booted |-> "none", succeeded |-> FALSE,
     ran |-> "none", checked |-> 0, boots |-> 0]

\* What a call of a sanitiser returned: nothing yet, a value, or the error code.
NotReturned == [kind |-> "none", value |-> <<>>]
\* a bool as the caller sees it
Bool(b) == IF b THEN "True" ELSE "False"

\* ----------------------------------------------- SQLSanitiseFunctions
\* The configured lists of sql_constants.
RISKY_KEYWORDS == { <<"order">>, <<"group">>, <<"select">>, <<"and">> }
KEYWORD_LOGIC_GATES == { <<"and">>, <<"or">>, <<"not">> }

\* str.lower() on the pieces that have capitals
LowerToken(tok) ==
    CASE tok = "ORDER" -> "order"
      [] tok = "Order" -> "order"
      [] tok = "AND" -> "and"
      [] tok = "NOW" -> "now"
      [] tok \in {"UP", "Up"} -> "up"
      [] tok \in {"DOWN", "Down"} -> "down"
      [] tok = "Partially" -> "partially"
      [] tok = "Unknown" -> "unknown"
      [] tok = "Status" -> "status"
      [] OTHER -> tok
Lower(string) == [i \in 1..Len(string) |-> LowerToken(string[i])]

escape_risky_column_name(item) ==
    IF Contains(item, {"="})
    THEN LET key == SubSeq(item, 1, IndexOf(item, "=") - 1)
             value == SubSeq(item, IndexOf(item, "=") + 1, Len(item))
         IN  IF Lower(key) \in RISKY_KEYWORDS
             THEN <<BT>> \o key \o <<BT, "=">> \o value
             ELSE item
    ELSE IF Lower(item) \in RISKY_KEYWORDS THEN <<BT>> \o item \o <<BT>>
    ELSE item

escape_risky_column_names(columns) ==
    [i \in 1..Len(columns) |-> escape_risky_column_name(columns[i])]

\* value.replace("'", "''")
DoubleQuotes(value) == [i \in 1..Len(value) |-> IF value[i] = SQ THEN SQSQ ELSE value[i]]

\* What a call leaves when value[-1] is taken of the empty string.
IndexError == <<"\\IndexError">>
protect_value_doubling(value) ==
    IF value = Null THEN <<"NULL">>
    ELSE <<SQ>> \o DoubleQuotes(value) \o <<SQ>>
protect_value(value) ==
    IF value = Null THEN <<"NULL">>
    ELSE IF Len(value) = 0 THEN <<SQ, SQ>>
    ELSE IF value[1] = BT /\ value[Len(value)] = BT THEN value
    ELSE LET v1 == IF value[1] = SQ THEN Tail(value) ELSE value
         IN  IF v1 = <<>> THEN IndexError
             ELSE LET v2 == IF v1[Len(v1)] = SQ THEN SubSeq(v1, 1, Len(v1) - 1) ELSE v1
                  IN  <<SQ>> \o DoubleQuotes(v2) \o <<SQ>>

escape_risky_column_names_where_mode(item) ==
    IF Contains(item, {"="})
    THEN LET key == SubSeq(item, 1, IndexOf(item, "=") - 1)
             value == SubSeq(item, IndexOf(item, "=") + 1, Len(item))
             protected_value == protect_value(value)
         IN  IF protected_value = IndexError THEN IndexError
             ELSE IF Lower(key) \notin KEYWORD_LOGIC_GATES /\ Lower(key) \in RISKY_KEYWORDS
             THEN <<BT>> \o key \o <<BT, "=">> \o protected_value
             ELSE key \o <<"=">> \o protected_value
    ELSE IF Lower(item) \notin KEYWORD_LOGIC_GATES /\ Lower(item) \in RISKY_KEYWORDS
    THEN protect_value(item)
    ELSE item

\* beautify_table: one dict per row, keyed by the first item of each column
\* descriptor, holding the cells the row has; self.error without columns or rows.
Shorter(a, b) == IF a < b THEN a ELSE b
RowDict(column_names, row) ==
    LET n == Shorter(Len(row), Len(column_names))
        keys == { column_names[k][1] : k \in 1..n }
        last(key) == CHOOSE k \in 1..n :
                        /\ column_names[k][1] = key
                        /\ \A j \in 1..n : column_names[j][1] = key => j <= k
    IN  [key \in keys |-> row[last(key)]]
beautify_table_same_length(column_names, table_content) ==
    IF Len(column_names) = 0 THEN [kind |-> "error", value |-> <<>>]
    ELSE IF Len(table_content) = 0 THEN [kind |-> "error", value |-> <<>>]
    ELSE IF \E v \in 1..Len(table_content) : Len(table_content[v]) # Len(column_names)
    THEN [kind |-> "error", value |-> <<>>]
    ELSE [kind |-> "value",
          value |-> [v \in 1..Len(table_content) |-> RowDict(column_names, table_content[v])]]
beautify_table(column_names, table_content) ==
    IF Len(column_names) = 0 THEN [kind |-> "error", value |-> <<>>]
    ELSE IF Len(table_content) = 0 THEN [kind |-> "error", value |-> <<>>]
    ELSE [kind |-> "value",
          value |-> [v \in 1..Len(table_content) |-> RowDict(column_names, table_content[v])]]

\* ------------------------------------------------ SQLQueryBoilerplates
NowValue == <<"<now>">>
CurrentDateValue == <<"<today>">>
normalize_cell(cell) ==
    IF cell = Null THEN Null
    ELSE IF Lower(cell) \in { <<"now">>, <<"now()">> } THEN NowValue
    ELSE IF Lower(cell) \in { <<"current_date">>, <<"current_date()">> } THEN CurrentDateValue
    ELSE cell

\* row_vals of one line: column_length cells, None where the line is short
RowValsUnpadded(line, column_length) ==
    [i \in 1..(IF Len(line) < column_length THEN Len(line) ELSE column_length) |->
        normalize_cell(line[i])]
RowVals(line, column_length) ==
    [i \in 1..column_length |-> IF i <= Len(line) THEN normalize_cell(line[i]) ELSE Null]

RECURSIVE Flatten(_)
Flatten(rows) == IF rows = <<>> THEN <<>> ELSE Head(rows) \o Flatten(Tail(rows))

\* ------------------------------------------------------------ coroutines
NoQuery == [text |-> <<>>, params |-> <<>>]
\* The arguments of a boilerplate call; column <<>> stands for None.
NoArgs ==
    [op |-> "none", table |-> <<>>, column |-> <<>>, where |-> <<>>, data |-> <<>>,
     batch |-> FALSE, beautify |-> FALSE, sql |-> <<>>]
\* The SQL facade after its constructor; closes counts the close() calls that
\* have returned on the instance.
NewFacade ==
    [made |-> FALSE, sql_manage_connections |-> TRUE, sql_query_boilerplates |-> FALSE,
     closes |-> 0]
InitTask ==
    [op |-> "idle", call |-> "none", pc |-> <<>>, retv |-> "none", retcur |-> 0,
     exc |-> "none", cursor |-> 0, connection |-> 0, internal_cursor |-> 0,
     probe |-> 0, query |-> NoQuery, res |-> "ok", data |-> <<>>,
     outcome |-> "none", caught |-> "none", held |-> 0, conn |-> 0, tuning |-> 0,
     req |-> NoArgs, arg |-> NoArgs, row |-> 0, content |-> <<>>,
     sent |-> <<>>, refused |-> FALSE, before |-> NoTable,
     overlapped |-> FALSE, cancelled |-> "no", failed |-> {},
     used_closed |-> FALSE,
     repeats |-> FALSE, inserted |-> <<>>, added |-> <<>>]

Top(t) == IF task[t].pc = <<>> THEN "idle" ELSE Head(task[t].pc)
MayRun(t) == running \in {0, t}

\* Frames of the layers above the manager that resume after a manager call.
CatchFrames == {"qb_column_names", "qb_ddl_done", "close_done"}

RECURSIVE Unwind(_)
Unwind(pc) ==
    IF pc = <<>> THEN <<>>
    ELSE IF Head(pc) \in CatchFrames THEN pc
    ELSE Unwind(Tail(pc))

\* Continue at frames in place of the current frame.
Goto(r, frames) == [r EXCEPT !.pc = frames \o Tail(@)]
\* The coroutine of a top-level call has ended: its locals are gone, the
\* caller keeps the result and a cursor it obtained.
Ended(r, v) ==
    [InitTask EXCEPT !.op = r.op, !.call = r.call, !.outcome = v,
                     !.caught = r.caught, !.held = r.held,
                     !.data = IF v = "data" THEN r.data ELSE <<>>,
                     !.req = r.req, !.sent = r.sent, !.refused = r.refused,
                     !.before = r.before, !.overlapped = r.overlapped,
                     !.failed = r.failed, !.used_closed = r.used_closed,
                     !.repeats = r.repeats,
                     !.inserted = r.inserted, !.added = r.added]
\* return v
Ret(r, v) ==
    IF Len(r.pc) = 1 THEN Ended(r, v)
    ELSE [r EXCEPT !.pc = Tail(@), !.retv = v]
\* raise e: the frames up to the nearest handler are left
Raise(r, e) ==
    LET rest == Unwind(r.pc)
    IN  IF rest = <<>> THEN Ended(r, e)
        ELSE [r EXCEPT !.pc = rest, !.exc = e]

\* The event loop after task t's step: t goes on unless its coroutine ended.
Continue(t) == running' = IF task'[t].pc = <<>> THEN 0 ELSE t
Suspend == running' = 0
SetTask(t, r) == task' = [task EXCEPT ![t] = r]

\* asyncio.Lock: acquire succeeds at once only when free with nobody waiting.
LockNeverTaken == TRUE
LockFree == lockHolder = 0 /\ waiters = <<>>
\* async with self._lock: then continue at frame next
AcquireThen(t, r, next) ==
    IF LockFree
    THEN /\ lockHolder' = t /\ waiters' = waiters
         /\ SetTask(t, Goto(r, <<next>>))
         /\ running' = t
    ELSE /\ lockHolder' = lockHolder /\ waiters' = Append(waiters, t)
         /\ SetTask(t, Goto(r, <<"lockwait", next>>))
         /\ Suspend
Released(t) == IF lockHolder = t THEN 0 ELSE lockHolder

\* The waiter at the head of the queue takes the released lock.
LockGranted(t) ==
    /\ Top(t) = "lockwait" /\ running = 0
    /\ lockHolder = 0 /\ waiters # <<>> /\ Head(waiters) = t
    /\ lockHolder' = t /\ waiters' = Tail(waiters)
    /\ SetTask(t, Goto(task[t], <<>>))
    /\ running' = t
    /\ UNCHANGED <<connection, callerVars, engineVars, ghostVars>>

\* History of the execute-commit sections of run_and_commit.
EngineStep(t, newSection) ==
    /\ intruded' = (intruded \/ (section \notin {0, t} /\ task[t].call = "run_and_commit"))
    /\ section' = newSection
    /\ UNCHANGED opened
SameSection(t) == section

\* ---- is_connection_active(connection): probe is the argument
ICA_Begin(t) ==
    /\ Top(t) = "ica_begin" /\ MayRun(t)
    /\ IF task[t].probe = 0
       THEN /\ SetTask(t, Ret(task[t], "False")) /\ Continue(t)
            /\ UNCHANGED <<lockHolder, waiters>>
       ELSE AcquireThen(t, task[t], "ica_select")
    /\ UNCHANGED <<connection, callerVars, engineVars, ghostVars>>

\* cur = await connection.execute("SELECT 1")
ICA_Select(t) ==
    /\ Top(t) = "ica_select" /\ MayRun(t)
    /\ \E e \in Outcomes(task[t].probe, {"operational"}) :
        /\ SetTask(t, [Goto(task[t], <<"ica_fetchone">>) EXCEPT !.res = e])
        /\ faults' = FaultsAfter(e)
    /\ Suspend
    /\ EngineStep(t, SameSection(t))
    /\ UNCHANGED <<mgrVars, callerVars, connOpen, nextConn, db, txn>>

\* await cur.fetchone()
ICA_Fetchone(t) ==
    /\ Top(t) = "ica_fetchone" /\ MayRun(t)
    /\ IF task[t].res = "ok"
       THEN /\ \E e \in Outcomes(task[t].probe, {"operational"}) :
                /\ SetTask(t, [Goto(task[t], <<"ica_done">>) EXCEPT !.res = e])
                /\ faults' = FaultsAfter(e)
            /\ Suspend
            /\ EngineStep(t, SameSection(t))
            /\ UNCHANGED lockHolder
       ELSE /\ SetTask(t, IF task[t].res = "closed" THEN Raise(task[t], "ValueError")
                          ELSE Ret(task[t], "False"))
            /\ lockHolder' = Released(t)
            /\ Continue(t)
            /\ UNCHANGED <<faults, ghostVars>>
    /\ UNCHANGED <<connection, waiters, callerVars, connOpen, nextConn, db, txn>>

ICA_Done(t) ==
    /\ Top(t) = "ica_done" /\ MayRun(t)
    /\ SetTask(t, IF task[t].res = "ok" THEN Ret(task[t], "True")
                  ELSE IF task[t].res = "closed" THEN Raise(task[t], "ValueError")
                  ELSE Ret(task[t], "False"))
    /\ lockHolder' = Released(t)
    /\ Continue(t)
    /\ UNCHANGED <<connection, waiters, callerVars, engineVars, ghostVars>>

\* ---- get_cursor(connection)
GC_Begin(t) ==
    /\ Top(t) = "gc_begin" /\ MayRun(t)
    /\ SetTask(t, [Goto(task[t], <<"ica_begin", "gc_probed">>) EXCEPT !.probe = task[t].connection])
    /\ running' = t
    /\ UNCHANGED <<mgrVars, callerVars, engineVars, ghostVars>>

\* cur = await connection.cursor()
GC_Probed(t) ==
    /\ Top(t) = "gc_probed" /\ MayRun(t)
    /\ IF task[t].retv = "True"
       THEN /\ \E e \in Outcomes(task[t].connection, {}) :
                SetTask(t, [Goto(task[t], <<"gc_cursor">>) EXCEPT !.res = e])
            /\ Suspend
            /\ EngineStep(t, SameSection(t))
       ELSE /\ SetTask(t, Raise(task[t], "RuntimeError(no cursor)"))
            /\ Continue(t)
            /\ UNCHANGED ghostVars
    /\ UNCHANGED <<mgrVars, callerVars, engineVars>>

GC_Cursor(t) ==
    /\ Top(t) = "gc_cursor" /\ MayRun(t)
    /\ SetTask(t, IF task[t].res = "ok"
                  THEN Ret([task[t] EXCEPT
                                !.retcur = task[t].connection,
                                !.held = IF Len(task[t].pc) = 1 THEN task[t].connection ELSE @],
                           "cursor")
                  ELSE Raise(task[t], "ValueError"))
    /\ Continue(t)
    /\ UNCHANGED <<mgrVars, callerVars, engineVars, ghostVars>>

\* ---- is_cursor_active(cursor): an aiosqlite cursor has no _connection
\* attribute, so the stored connection decides.
CursorHasConnectionAttr == FALSE
is_cursor_active(cursor) ==
    cursor # 0 /\ (CursorHasConnectionAttr \/ connection # 0)

\* ---- close_cursor(cursor)
CC_Begin(t) ==
    /\ Top(t) = "cc_begin" /\ MayRun(t)
    /\ IF is_cursor_active(task[t].internal_cursor)
       THEN AcquireThen(t, task[t], "cc_close")
       ELSE /\ SetTask(t, Ret(task[t], "error")) /\ Continue(t)
            /\ UNCHANGED <<lockHolder, waiters>>
    /\ UNCHANGED <<connection, callerVars, engineVars, ghostVars>>

\* await cursor.close()
CC_Close(t) ==
    /\ Top(t) = "cc_close" /\ MayRun(t)
    /\ \E e \in Outcomes(task[t].internal_cursor, {"operational"}) :
        /\ SetTask(t, [Goto(task[t], <<"cc_closed">>) EXCEPT !.res = e])
        /\ faults' = FaultsAfter(e)
    /\ Suspend
    /\ EngineStep(t, SameSection(t))
    /\ UNCHANGED <<mgrVars, callerVars, connOpen, nextConn, db, txn>>

CC_Closed(t) ==
    /\ Top(t) = "cc_closed" /\ MayRun(t)
    /\ SetTask(t, IF task[t].res = "closed" THEN Raise(task[t], "ValueError")
                  ELSE Ret(task[t], "success"))
    /\ lockHolder' = Released(t)
    /\ Continue(t)
    /\ UNCHANGED <<connection, waiters, callerVars, engineVars, ghostVars>>

\* ---- return_connection(connection)
RCN_Begin(t) ==
    /\ Top(t) = "rcn_begin" /\ MayRun(t)
    /\ SetTask(t, [Goto(task[t], <<"ica_begin", "rcn_probed">>) EXCEPT !.probe = task[t].connection])
    /\ running' = t
    /\ UNCHANGED <<mgrVars, callerVars, engineVars, ghostVars>>

RCN_Probed(t) ==
    /\ Top(t) = "rcn_probed" /\ MayRun(t)
    /\ IF task[t].retv = "True"
       THEN AcquireThen(t, task[t], "rcn_close")
       ELSE /\ SetTask(t, Ret(task[t], "error")) /\ Continue(t)
            /\ UNCHANGED <<lockHolder, waiters>>
    /\ UNCHANGED <<connection, callerVars, engineVars, ghostVars>>

\* await connection.close(): closing a closed connection does nothing; an
\* open one is gone afterwards even when the close raises.
CloseEffect(c, e) ==
    /\ connOpen' = connOpen \ {c}
    /\ txn' = [txn EXCEPT ![c] = NoTxn]
    /\ faults' = FaultsAfter(e)
    /\ UNCHANGED <<nextConn, db>>
CloseOutcomes(c) == IF c \notin connOpen THEN {"ok"} ELSE Outcomes(c, {"operational"})

RCN_Close(t) ==
    /\ Top(t) = "rcn_close" /\ MayRun(t)
    /\ \E e \in CloseOutcomes(task[t].connection) :
        /\ SetTask(t, [Goto(task[t], <<"rcn_closed">>) EXCEPT !.res = e])
        /\ CloseEffect(task[t].connection, e)
    /\ Suspend
    /\ EngineStep(t, SameSection(t))
    /\ UNCHANGED <<mgrVars, callerVars>>

\* self.connection = None
RCN_Closed(t) ==
    /\ Top(t) = "rcn_closed" /\ MayRun(t)
    /\ SetTask(t, Ret(task[t], "success"))
    /\ lockHolder' = Released(t)
    /\ connection' = 0
    /\ Continue(t)
    /\ UNCHANGED <<waiters, callerVars, engineVars, ghostVars>>

\* ---- release_connection_and_cursor(connection, cursor)
REL_Begin(t) ==
    /\ Top(t) = "rel_begin" /\ MayRun(t)
    /\ SetTask(t, IF task[t].internal_cursor # 0
                  THEN Goto(task[t], <<"cc_begin", "rel_cursor_done">>)
                  ELSE Goto(task[t], <<"rel_cursor_done">>))
    /\ running' = t
    /\ UNCHANGED <<mgrVars, callerVars, engineVars, ghostVars>>

REL_CursorDone(t) ==
    /\ Top(t) = "rel_cursor_done" /\ MayRun(t)
    /\ SetTask(t, IF task[t].connection # 0
                  THEN Goto(task[t], <<"rcn_begin", "rel_conn_done">>)
                  ELSE Goto(task[t], <<"rel_conn_done">>))
    /\ running' = t
    /\ UNCHANGED <<mgrVars, callerVars, engineVars, ghostVars>>

REL_ConnDone(t) ==
    /\ Top(t) = "rel_conn_done" /\ MayRun(t)
    /\ SetTask(t, Ret(task[t], "None"))
    /\ Continue(t)
    /\ UNCHANGED <<mgrVars, callerVars, engineVars, ghostVars>>


\* The engine effects of one execute and of one commit.
ExecEffect(c, q, e) ==
    /\ txn' = IF e = "ok" /\ IsWrite(q.text)
              THEN [txn EXCEPT ![c] = [open |-> TRUE, tbl |-> Applied(q.text, q.params, View(c))]]
              ELSE txn
    /\ faults' = IF Injected(c, q, e) THEN faults + 1 ELSE faults
    /\ UNCHANGED <<connOpen, nextConn, db>>
CommitDeferred(c, e) ==
    /\ db' = db
    /\ txn' = txn
    /\ faults' = FaultsAfter(e)
    /\ UNCHANGED <<connOpen, nextConn>>
CommitEffect(c, e) ==
    /\ db' = IF e = "ok" /\ txn[c].open THEN txn[c].tbl ELSE db
    /\ txn' = IF e = "ok" THEN [txn EXCEPT ![c] = NoTxn] ELSE txn
    /\ faults' = FaultsAfter(e)
    /\ UNCHANGED <<connOpen, nextConn>>

\* The except clauses of run_and_commit: release a cursor of our own, raise.
RC_Handler(r, cls) ==
    IF r.cursor = 0
    THEN [Goto(r, <<"rel_begin", "reraise">>) EXCEPT !.caught = cls]
    ELSE Raise([r EXCEPT !.caught = cls], "RuntimeError")

\* The except clauses of run_and_fetch_all: after the release of a cursor of
\* our own, the IntegrityError and the generic clause do not raise.
RF_Handler(r, cls) ==
    IF r.cursor = 0
    THEN [Goto(r, IF cls \in {"programming", "operational"}
                  THEN <<"rel_begin", "reraise">>
                  ELSE <<"rel_begin", "rf_handled">>) EXCEPT !.caught = cls]
    ELSE Raise([r EXCEPT !.caught = cls], "RuntimeError")

\* raise RuntimeError(msg) from the caught error
Reraise(t) ==
    /\ Top(t) = "reraise" /\ MayRun(t)
    /\ SetTask(t, Raise(task[t], "RuntimeError"))
    /\ Continue(t)
    /\ UNCHANGED <<mgrVars, callerVars, engineVars, ghostVars>>

\* ---- run_and_commit(query, values, cursor)
RC_Begin(t) ==
    /\ Top(t) = "rc_begin" /\ MayRun(t)
    /\ LET r == [task[t] EXCEPT !.call = "run_and_commit", !.caught = "none"]
       IN  IF r.cursor # 0
           THEN AcquireThen(t, [r EXCEPT !.internal_cursor = r.cursor], "rc_execute")
           ELSE /\ SetTask(t, IF connection = 0 THEN Raise(r, "RuntimeError(not initialized)")
                              ELSE [Goto(r, <<"gc_begin", "rc_try">>) EXCEPT !.connection = connection])
                /\ Continue(t)
                /\ UNCHANGED <<lockHolder, waiters>>
    /\ UNCHANGED <<connection, callerVars, engineVars, ghostVars>>

\* async with self._lock:
RC_Try(t) ==
    /\ Top(t) = "rc_try" /\ MayRun(t)
    /\ AcquireThen(t, [task[t] EXCEPT !.internal_cursor = task[t].retcur], "rc_execute")
    /\ UNCHANGED <<connection, callerVars, engineVars, ghostVars>>

\* await internal_cursor.execute(query)
RC_Execute(t) ==
    /\ Top(t) = "rc_execute" /\ MayRun(t)
    /\ \E e \in ExecOutcomes(task[t].internal_cursor, task[t].query) :
        /\ SetTask(t, [Goto(task[t], <<"rc_executed">>) EXCEPT !.res = e,
                !.used_closed = task[t].internal_cursor \notin connOpen])
        /\ ExecEffect(task[t].internal_cursor, task[t].query, e)
        /\ EngineStep(t, IF e = "ok" THEN t ELSE section)
    /\ Suspend
    /\ UNCHANGED <<mgrVars, callerVars>>

\* the lock is left; conn = self.connection; await conn.commit()
RC_Executed(t) ==
    /\ Top(t) = "rc_executed" /\ MayRun(t)
    /\ lockHolder' = Released(t)
    /\ IF task[t].res = "ok" /\ connection # 0
       THEN /\ \E e \in Outcomes(connection, ErrClasses) :
                /\ SetTask(t, [Goto(task[t], <<"rc_committed">>) EXCEPT !.res = e])
                /\ CommitEffect(connection, e)
            /\ Suspend
            /\ EngineStep(t, 0)
       ELSE /\ SetTask(t, IF task[t].res = "ok" THEN Goto(task[t], <<"rc_committed">>)
                          ELSE IF task[t].res = "closed" THEN Raise(task[t], "ValueError")
                          ELSE RC_Handler(task[t], task[t].res))
            /\ Continue(t)
            /\ section' = IF section = t THEN 0 ELSE section
            /\ UNCHANGED <<engineVars, intruded, opened>>
    /\ UNCHANGED <<connection, waiters, callerVars>>

\* if cursor is None: release_connection_and_cursor(connection, internal_cursor)
RC_Committed(t) ==
    /\ Top(t) = "rc_committed" /\ MayRun(t)
    /\ SetTask(t, IF task[t].res = "ok"
                  THEN IF task[t].cursor = 0 THEN Goto(task[t], <<"rel_begin", "rc_return">>)
                       ELSE Ret(task[t], "success")
                  ELSE IF task[t].res = "closed" THEN Raise(task[t], "ValueError")
                  ELSE RC_Handler(task[t], task[t].res))
    /\ Continue(t)
    /\ UNCHANGED <<mgrVars, callerVars, engineVars, ghostVars>>

RC_Return(t) ==
    /\ Top(t) = "rc_return" /\ MayRun(t)
    /\ SetTask(t, Ret(task[t], "success"))
    /\ Continue(t)
    /\ UNCHANGED <<mgrVars, callerVars, engineVars, ghostVars>>

\* ---- run_and_fetch_all(query, values, cursor)
RF_Begin(t) ==
    /\ Top(t) = "rf_begin" /\ MayRun(t)
    /\ LET r == [task[t] EXCEPT !.call = "run_and_fetch_all", !.caught = "none"]
       IN  IF r.cursor # 0
           THEN AcquireThen(t, [r EXCEPT !.internal_cursor = r.cursor], "rf_execute")
           ELSE /\ SetTask(t, IF connection = 0 THEN Raise(r, "RuntimeError(not initialized)")
                              ELSE [Goto(r, <<"gc_begin", "rf_try">>) EXCEPT !.connection = connection])
                /\ Continue(t)
                /\ UNCHANGED <<lockHolder, waiters>>
    /\ UNCHANGED <<connection, callerVars, engineVars, ghostVars>>

RF_Try(t) ==
    /\ Top(t) = "rf_try" /\ MayRun(t)
    /\ AcquireThen(t, [task[t] EXCEPT !.internal_cursor = task[t].retcur], "rf_execute")
    /\ UNCHANGED <<connection, callerVars, engineVars, ghostVars>>

RF_Execute(t) ==
    /\ Top(t) = "rf_execute" /\ MayRun(t)
    /\ \E e \in ExecOutcomes(task[t].internal_cursor, task[t].query) :
        /\ SetTask(t, [Goto(task[t], <<"rf_executed">>) EXCEPT !.res = e,
                !.used_closed = task[t].internal_cursor \notin connOpen])
        /\ ExecEffect(task[t].internal_cursor, task[t].query, e)
    /\ EngineStep(t, SameSection(t))
    /\ Suspend
    /\ UNCHANGED <<mgrVars, callerVars>>

\* Still inside the lock: without a description the cursor of our own is
\* released here, else raw_data = await internal_cursor.fetchall()
RF_Executed(t) ==
    /\ Top(t) = "rf_executed" /\ MayRun(t)
    /\ IF task[t].res = "ok" /\ HasDescription(task[t].query.text)
       THEN /\ \E e \in Outcomes(task[t].internal_cursor, ErrClasses) :
                /\ SetTask(t, [Goto(task[t], <<"rf_fetched">>) EXCEPT
                        !.res = e,
                        !.data = Fetched(task[t].query.text, View(task[t].internal_cursor))])
                /\ faults' = FaultsAfter(e)
            /\ Suspend
            /\ EngineStep(t, SameSection(t))
            /\ UNCHANGED lockHolder
       ELSE /\ IF task[t].res = "ok"
               THEN IF task[t].cursor = 0
                    THEN /\ SetTask(t, Goto(task[t], <<"rel_begin", "rf_nodesc">>))
                         /\ UNCHANGED lockHolder
                    ELSE /\ SetTask(t, Ret(task[t], "error"))
                         /\ lockHolder' = Released(t)
               ELSE /\ SetTask(t, IF task[t].res = "closed" THEN Raise(task[t], "ValueError")
                                  ELSE RF_Handler(task[t], task[t].res))
                    /\ lockHolder' = Released(t)
            /\ Continue(t)
            /\ UNCHANGED <<faults, ghostVars>>
    /\ UNCHANGED <<connection, waiters, callerVars, connOpen, nextConn, db, txn>>

\* data = list(raw_data); the lock is left; a cursor of our own is released
RF_Fetched(t) ==
    /\ Top(t) = "rf_fetched" /\ MayRun(t)
    /\ lockHolder' = Released(t)
    /\ SetTask(t, IF task[t].res = "ok"
                  THEN IF task[t].cursor = 0 THEN Goto(task[t], <<"rel_begin", "rf_return">>)
                       ELSE Ret(task[t], "data")
                  ELSE IF task[t].res = "closed" THEN Raise(task[t], "ValueError")
                  ELSE RF_Handler(task[t], task[t].res))
    /\ Continue(t)
    /\ UNCHANGED <<connection, waiters, callerVars, engineVars, ghostVars>>

\* return data / return self.error inside the lock / the end of a handler
\* that did not raise (the coroutine returns None)
RF_Return(t) ==
    /\ Top(t) \in {"rf_return", "rf_nodesc", "rf_handled"} /\ MayRun(t)
    /\ SetTask(t, Ret(task[t], CASE Top(t) = "rf_return" -> "data"
                                 [] Top(t) = "rf_nodesc" -> "error"
                                 [] OTHER -> "None"))
    /\ lockHolder' = IF Top(t) = "rf_nodesc" THEN Released(t) ELSE lockHolder
    /\ Continue(t)
    /\ UNCHANGED <<connection, waiters, callerVars, engineVars, ghostVars>>


\* ---- run_editing_command(sql_query, values, table, action_type)
REC_Begin(t) ==
    /\ Top(t) = "rec_begin" /\ MayRun(t)
    /\ SetTask(t, [Goto(task[t], <<"rc_begin", "rec_done">>) EXCEPT !.cursor = 0])
    /\ running' = t
    /\ UNCHANGED <<mgrVars, callerVars, engineVars, ghostVars>>

REC_Done(t) ==
    /\ Top(t) = "rec_done" /\ MayRun(t)
    /\ SetTask(t, Ret(task[t], IF task[t].retv = "success" THEN "success" ELSE "error"))
    /\ Continue(t)
    /\ UNCHANGED <<mgrVars, callerVars, engineVars, ghostVars>>

\* ---- destroy_pool()
DP_Begin(t) ==
    /\ Top(t) = "dp_begin" /\ MayRun(t)
    /\ LET r == [task[t] EXCEPT !.call = "destroy_pool"]
       IN  IF connection # 0
           THEN AcquireThen(t, r, "dp_close")
           ELSE /\ SetTask(t, Ret(r, "success")) /\ Continue(t)
                /\ UNCHANGED <<lockHolder, waiters>>
    /\ opened' = FALSE
    /\ UNCHANGED <<connection, callerVars, engineVars, section, intruded>>

\* await self.connection.close(): self.connection is read once the lock is held
DP_Close(t) ==
    /\ Top(t) = "dp_close" /\ MayRun(t)
    /\ IF connection = 0
       THEN /\ SetTask(t, Raise(task[t], "AttributeError"))
            /\ lockHolder' = Released(t)
            /\ Continue(t)
            /\ UNCHANGED <<engineVars, section, intruded>>
       ELSE /\ \E e \in CloseOutcomes(connection) :
                /\ SetTask(t, [Goto(task[t], <<"dp_closed">>) EXCEPT !.res = e])
                /\ CloseEffect(connection, e)
            /\ Suspend
            /\ intruded' = intruded /\ section' = section
            /\ UNCHANGED lockHolder
    /\ opened' = FALSE
    /\ UNCHANGED <<connection, waiters, callerVars>>

\* self.connection = None; return self.success
DP_Closed(t) ==
    /\ Top(t) = "dp_closed" /\ MayRun(t)
    /\ SetTask(t, Ret(task[t], "success"))
    /\ lockHolder' = Released(t)
    /\ connection' = 0
    /\ opened' = FALSE
    /\ Continue(t)
    /\ UNCHANGED <<waiters, callerVars, engineVars, section, intruded>>

\* ---- initialise_pool()
\* conn = await aiosqlite.connect(self.db_name)
IP_Connect(t) ==
    /\ Top(t) = "ip_begin" /\ MayRun(t) /\ nextConn <= MaxConn
    /\ \E e \in {"ok"} \cup (IF faults < allowed THEN ErrClasses ELSE {}) :
        /\ SetTask(t, [Goto(task[t], <<"ip_pragma">>) EXCEPT
                !.call = "initialise_pool", !.res = e, !.tuning = 0,
                !.conn = IF e = "ok" THEN nextConn ELSE 0,
                !.failed = IF e = "ok" THEN {} ELSE {"connect"}])
        /\ connOpen' = IF e = "ok" THEN connOpen \cup {nextConn} ELSE connOpen
        /\ nextConn' = IF e = "ok" THEN nextConn + 1 ELSE nextConn
        /\ faults' = FaultsAfter(e)
    /\ Suspend
    /\ UNCHANGED <<mgrVars, callerVars, db, txn, ghostVars>>

\* The three PRAGMA statements, each in its own try/except sqlite3.Error: pass,
\* then await conn.commit(); failed records which steps of the call raised
NumPragmas == 3
IP_Pragma(t) ==
    /\ Top(t) = "ip_pragma" /\ MayRun(t)
    /\ IF task[t].res # "ok" /\ task[t].tuning = 0
       THEN /\ SetTask(t, Raise([task[t] EXCEPT !.caught = task[t].res], "RuntimeError"))
            /\ Continue(t)
            /\ UNCHANGED engineVars
       ELSE IF task[t].tuning < NumPragmas
       THEN /\ \E e \in Outcomes(task[t].conn, {"operational"}) :
                /\ SetTask(t, [task[t] EXCEPT !.res = e, !.tuning = @ + 1,
                        !.failed = IF e = "ok" THEN @ ELSE @ \cup {"pragma"}])
                /\ faults' = FaultsAfter(e)
            /\ Suspend
            /\ UNCHANGED <<connOpen, nextConn, db, txn>>
       ELSE /\ \E e \in Outcomes(task[t].conn, ErrClasses) :
                /\ SetTask(t, [Goto(task[t], <<"ip_committed">>) EXCEPT !.res = e,
                        !.failed = IF e = "ok" THEN @ ELSE @ \cup {"commit"}])
                /\ CommitEffect(task[t].conn, e)
            /\ Suspend
    /\ UNCHANGED <<mgrVars, callerVars, ghostVars>>

\* self.connection = conn; return self.success
IP_CommittedNotStored(t) ==
    /\ Top(t) = "ip_committed" /\ MayRun(t)
    /\ IF task[t].res = "ok"
       THEN /\ SetTask(t, Ret(task[t], "success"))
            /\ UNCHANGED <<connection, opened>>
       ELSE /\ SetTask(t, Raise([task[t] EXCEPT !.caught = task[t].res], "RuntimeError"))
            /\ UNCHANGED <<connection, opened>>
    /\ Continue(t)
    /\ UNCHANGED <<lockHolder, waiters, callerVars, engineVars, section, intruded>>
IP_Committed(t) ==
    /\ Top(t) = "ip_committed" /\ MayRun(t)
    /\ IF task[t].res = "ok"
       THEN /\ SetTask(t, Ret(task[t], "success"))
            /\ connection' = task[t].conn
            /\ opened' = TRUE
       ELSE /\ SetTask(t, Raise([task[t] EXCEPT !.caught = task[t].res], "RuntimeError"))
            /\ UNCHANGED <<connection, opened>>
    /\ Continue(t)
    /\ UNCHANGED <<lockHolder, waiters, callerVars, engineVars, section, intruded>>


\* ------------------------------------------------- statement text builders
\* "(" + ", ".join(["?"] * column_length) + ")"
Placeholders(column_length) ==
    <<"(">> \o Join([i \in 1..column_length |-> <<"?">>], ", ") \o <<")">>

\* f"INSERT INTO {table} ({column_str}) VALUES {values}"
InsertQuery(table, column, rows) ==
    <<"INSERT INTO ">> \o table \o <<" (">> \o Join(column, ", ") \o <<") VALUES ">>
        \o Join([i \in 1..rows |-> Placeholders(Len(column))], ", ")

\* f"SELECT {column_str} FROM {table}" and f" WHERE {where}"
SelectQuery(table, column_str, where) ==
    <<"SELECT ">> \o column_str \o <<" FROM ">> \o table
        \o (IF where # <<>> THEN <<" WHERE ">> \o where ELSE <<>>)

\* f"UPDATE {table} SET {update_line}" and f" WHERE {where}"
UpdateQuery(table, column, where) ==
    <<"UPDATE ">> \o table \o <<" SET ">>
        \o Join([i \in 1..Len(column) |-> column[i] \o <<" = ?">>], ", ")
        \o (IF where # <<>> THEN <<" WHERE ">> \o where ELSE <<>>)

\* f"DELETE FROM {table}" and f" WHERE {where}"
DeleteQuery(table, where) ==
    <<"DELETE FROM ">> \o table
        \o (IF where # <<>> THEN <<" WHERE ">> \o where ELSE <<>>)

\* f"CREATE TABLE IF NOT EXISTS '{table_safe}' ({columns_def});"
CreateQuery(table, columns) ==
    <<"CREATE TABLE IF NOT EXISTS ", SQ>> \o DoubleQuotes(table) \o <<SQ, " (">>
        \o Join([i \in 1..Len(columns) |-> <<SQ>> \o DoubleQuotes(columns[i]) \o <<SQ, " TEXT">>], ", ")
        \o <<");">>

\* f"DROP TABLE IF EXISTS '{table_safe}';"
DropQuery(table) == <<"DROP TABLE IF EXISTS ", SQ>> \o DoubleQuotes(table) \o <<SQ, ";">>

\* f"SELECT COUNT({column}) FROM {table}" and f" WHERE {where}"
CountQuery(table, column, where) ==
    <<"SELECT COUNT(">> \o Join(column, ", ") \o <<") FROM ">> \o table
        \o (IF where # <<>> THEN <<" WHERE ">> \o where ELSE <<>>)

\* ---------------------------------------- SQLQueryBoilerplates, the calls
IsRuntimeError(e) ==
    e \in {"RuntimeError", "RuntimeError(not initialized)", "RuntimeError(no cursor)"}

\* str(cell)
Str(cell) == IF cell = Null THEN <<"None">> ELSE cell

\* The statement interface between the boilerplates and the manager: the
\* boilerplates hand over the statement text together with its bound values.
ValuesAccepted == TRUE

\* Hand a statement to the manager's entry point and go on at cont after it.
Send(r, entry, text, params, cont) ==
    IF ~ValuesAccepted THEN Raise(r, "TypeError")
    ELSE [Goto(r, <<entry>> \o cont) EXCEPT
        !.query = [text |-> text, params |-> params],
        !.sent = Append(@, text), !.cursor = 0]
\* "Injection detected": return self.error
Refuse(r) == Ret([r EXCEPT !.refused = TRUE], "error")
\* raise out of a frame that has a handler
RaiseOut(r, e) == Raise([r EXCEPT !.pc = Tail(@), !.exc = "none"], e)

\* A step of a coroutine that runs without suspending.
Sync(t, new) ==
    /\ SetTask(t, new)
    /\ Continue(t)
    /\ UNCHANGED <<mgrVars, callerVars, engineVars, ghostVars>>

get_triggers(t) ==
    /\ Top(t) = "qb_get_triggers" /\ MayRun(t)
    /\ Sync(t, LET r == task[t] IN
        Send(r, "rf_begin", <<"SELECT name, sql FROM sqlite_master", " WHERE type='trigger' AND name NOT LIKE 'sqlite_%';">>, <<>>, <<"qb_listed">>))
get_table_names(t) ==
    /\ Top(t) = "qb_get_table_names" /\ MayRun(t)
    /\ Sync(t, LET r == task[t] IN
        Send(r, "rf_begin", <<"SELECT name FROM sqlite_master", " WHERE type='table' AND name NOT LIKE 'sqlite_%';">>, <<>>, <<"qb_listed">>))
get_trigger_names(t) ==
    /\ Top(t) = "qb_get_trigger_names" /\ MayRun(t)
    /\ Sync(t, LET r == task[t] IN
        Send(r, "rf_begin", <<"SELECT name FROM sqlite_master", " WHERE type='trigger' AND name NOT LIKE 'sqlite_%';">>, <<>>, <<"qb_listed">>))
\* isinstance(resp, int) -> self.error; else the rows are walked
listed(t) ==
    /\ Top(t) = "qb_listed" /\ MayRun(t)
    /\ Sync(t, LET r == task[t] IN
        IF r.retv = "data" THEN Ret(r, "data")
        ELSE IF r.retv = "None" THEN Raise(r, "TypeError")
        ELSE Ret(r, "error"))

describe_table(t) ==
    /\ Top(t) = "qb_describe_table" /\ MayRun(t)
    /\ Sync(t, LET r == task[t] IN
        IF check_if_sql_injection(r.arg.table) THEN Refuse(r)
        ELSE Send(r, "rf_begin", <<"PRAGMA table_info('">> \o r.arg.table \o <<"');">>, <<>>, <<"qb_described">>))
\* each row becomes (name,) + row[2:]
described(t) ==
    /\ Top(t) = "qb_described" /\ MayRun(t)
    /\ Sync(t, LET r == task[t] IN
        IF r.retv = "data"
        THEN Ret([r EXCEPT !.data = [i \in 1..Len(r.data) |-> Tail(r.data[i])]], "data")
        ELSE IF r.retv = "None" THEN Raise(r, "TypeError")
        ELSE Ret(r, "error"))

get_table_column_names(t) ==
    /\ Top(t) = "qb_get_table_column_names" /\ MayRun(t)
    /\ Sync(t, LET r == task[t] IN
        Goto(r, <<"qb_describe_table", "qb_column_names">>))
\* except RuntimeError: return self.error
column_names(t) ==
    /\ Top(t) = "qb_column_names" /\ MayRun(t)
    /\ Sync(t, LET r == task[t] IN
        IF r.exc # "none"
        THEN (IF IsRuntimeError(r.exc) THEN Ret([r EXCEPT !.exc = "none"], "error")
              ELSE RaiseOut(r, r.exc))
        ELSE IF r.retv = "data"
        THEN Ret([r EXCEPT !.data = [i \in 1..Len(r.data) |-> r.data[i][1]]], "data")
        ELSE Ret(r, "error"))

get_trigger(t) ==
    /\ Top(t) = "qb_get_trigger" /\ MayRun(t)
    /\ Sync(t, LET r == task[t] IN
        IF r.arg.table = <<>> THEN Ret(r, "error")
        ELSE IF check_if_injections_in_strings(Strings(<<r.arg.table>>)) THEN Refuse(r)
        ELSE Send(r, "rf_begin", <<"SELECT sql FROM sqlite_master", " WHERE type='trigger' AND name = '">> \o r.arg.table \o <<"';">>, <<>>, <<"qb_got_trigger">>))
got_trigger(t) ==
    /\ Top(t) = "qb_got_trigger" /\ MayRun(t)
    /\ Sync(t, LET r == task[t] IN
        IF r.retv = "data" /\ r.data # <<>> /\ r.data[1] # <<>> THEN Ret(r, "data")
        ELSE Ret(r, "error"))

\* Only the table name is scanned.
create_table(t) ==
    /\ Top(t) = "qb_create_table" /\ MayRun(t)
    /\ Sync(t, LET r == task[t] IN
        IF check_if_injections_in_strings(Strings(<<r.arg.table>>)) THEN Refuse(r)
        ELSE Send(r, "rc_begin", CreateQuery(r.arg.table, r.arg.column), <<>>, <<"qb_ddl_done">>))
remove_table(t) ==
    /\ Top(t) = "qb_remove_table" /\ MayRun(t)
    /\ Sync(t, LET r == task[t] IN
        IF check_if_injections_in_strings(Strings(<<r.arg.table>>)) THEN Refuse(r)
        ELSE Send(r, "rc_begin", DropQuery(r.arg.table), <<>>, <<"qb_ddl_done">>))
\* except Exception: raise RuntimeError(msg)
ddl_done(t) ==
    /\ Top(t) = "qb_ddl_done" /\ MayRun(t)
    /\ Sync(t, LET r == task[t] IN
        IF r.exc # "none" THEN RaiseOut(r, "RuntimeError")
        ELSE Ret(r, IF r.retv = "error" THEN "error" ELSE "success"))

InsertBuild(r, column) ==
    LET col == escape_risky_column_names(column)
        rows == IF r.arg.batch THEN r.arg.data ELSE <<r.arg.data[1]>>
    IN  Send(r, "rec_begin", InsertQuery(r.arg.table, col, Len(rows)),
             Flatten([i \in 1..Len(rows) |-> RowVals(rows[i], Len(col))]), <<>>)
insert_data_into_table(t) ==
    /\ Top(t) = "qb_insert_data_into_table" /\ MayRun(t)
    /\ Sync(t, LET r == task[t] IN
        IF check_if_injections_in_strings(Strings(<<r.arg.table>> \o r.arg.column)) THEN Refuse(r)
        ELSE IF r.arg.column = <<>>
        THEN Goto(r, <<"qb_get_table_column_names", "qb_insert_resolved">>)
        ELSE InsertBuild(r, r.arg.column))
insert_resolved(t) ==
    /\ Top(t) = "qb_insert_resolved" /\ MayRun(t)
    /\ Sync(t, LET r == task[t] IN
        IF r.retv = "data" THEN InsertBuild(r, r.data) ELSE Ret(r, "error"))

insert_trigger(t) ==
    /\ Top(t) = "qb_insert_trigger" /\ MayRun(t)
    /\ Sync(t, LET r == task[t] IN
        IF r.arg.table = <<>> \/ r.arg.sql = <<>> THEN Ret(r, "error")
        ELSE IF check_if_sql_injection(r.arg.table) THEN Refuse(r)
        ELSE Send(r, "rec_begin", r.arg.sql, <<>>, <<"qb_trigger_done">>))
remove_trigger(t) ==
    /\ Top(t) = "qb_remove_trigger" /\ MayRun(t)
    /\ Sync(t, LET r == task[t] IN
        IF r.arg.table = <<>> THEN Ret(r, "error")
        ELSE IF check_if_injections_in_strings(Strings(<<r.arg.table>>)) THEN Refuse(r)
        ELSE Send(r, "rec_begin", <<"DROP TRIGGER IF EXISTS ">> \o r.arg.table \o <<";">>, <<>>, <<"qb_trigger_done">>))
trigger_done(t) ==
    /\ Top(t) = "qb_trigger_done" /\ MayRun(t)
    /\ Sync(t, LET r == task[t] IN
        Ret(r, IF r.retv = "success" THEN "success" ELSE "error"))
insert_or_update_trigger(t) ==
    /\ Top(t) = "qb_insert_or_update_trigger" /\ MayRun(t)
    /\ Sync(t, LET r == task[t] IN
        Goto(r, <<"qb_remove_trigger", "qb_trigger_replaced">>))
trigger_replaced(t) ==
    /\ Top(t) = "qb_trigger_replaced" /\ MayRun(t)
    /\ Sync(t, LET r == task[t] IN
        Goto(r, <<"qb_insert_trigger">>))

get_data_from_table(t) ==
    /\ Top(t) = "qb_get_data_from_table" /\ MayRun(t)
    /\ Sync(t, LET r == task[t] IN
        IF \/ check_if_injections_in_strings(Strings(<<r.arg.table>> \o r.arg.column))
           \/ check_if_symbol_and_command_injection(r.arg.where)
        THEN Refuse(r)
        ELSE Send(r, "rf_begin",
                  SelectQuery(r.arg.table, Join(escape_risky_column_names(r.arg.column), ", "),
                              escape_risky_column_names_where_mode(r.arg.where)),
                  <<>>, <<"qb_got_data">>))
got_data(t) ==
    /\ Top(t) = "qb_got_data" /\ MayRun(t)
    /\ Sync(t, LET r == task[t] IN
        IF r.retv = "error" THEN Ret(r, "error")
        ELSE IF ~r.arg.beautify THEN Ret(r, r.retv)
        ELSE Goto([r EXCEPT !.content = r.data, !.res = r.retv], <<"qb_describe_table", "qb_beautify">>))
\* beautify_table(data, resp_list)
beautify(t) ==
    /\ Top(t) = "qb_beautify" /\ MayRun(t)
    /\ Sync(t, LET r == task[t] IN
        IF r.retv # "data" THEN Ret(r, "error")
        ELSE IF Len(r.data) = 0 THEN Ret(r, "error")
        ELSE IF r.res = "None" THEN Raise(r, "TypeError")
        ELSE IF beautify_table(r.data, r.content).kind = "error" THEN Ret(r, "error")
        ELSE Ret([r EXCEPT !.data = beautify_table(r.data, r.content).value], "data"))

get_table_size(t) ==
    /\ Top(t) = "qb_get_table_size" /\ MayRun(t)
    /\ Sync(t, LET r == task[t] IN
        IF \/ check_if_injections_in_strings(Strings(<<r.arg.table>> \o r.arg.column))
           \/ check_if_symbol_and_command_injection(r.arg.where)
        THEN Ret([r EXCEPT !.refused = TRUE], "size_error")
        ELSE Send(r, "rf_begin",
                  CountQuery(r.arg.table, r.arg.column, escape_risky_column_names_where_mode(r.arg.where)),
                  <<>>, <<"qb_got_size">>))
got_size(t) ==
    /\ Top(t) = "qb_got_size" /\ MayRun(t)
    /\ Sync(t, LET r == task[t] IN
        IF r.retv = "error" THEN Ret(r, "size_error")
        ELSE IF r.retv = "None" THEN Raise(r, "TypeError")
        ELSE IF Len(r.data) = 0 THEN Ret(r, "size_error")
        ELSE Ret(r, "data"))

UpdateBuild(r, column) ==
    LET col == escape_risky_column_names(column)
    IN  Send(r, "rec_begin",
             UpdateQuery(r.arg.table, col, escape_risky_column_names_where_mode(r.arg.where)),
             RowVals(r.arg.data[1], Len(col)), <<>>)
update_data_in_table(t) ==
    /\ Top(t) = "qb_update_data_in_table" /\ MayRun(t)
    /\ Sync(t, LET r == task[t] IN
        IF \/ check_if_injections_in_strings(Strings(<<r.arg.table>> \o r.arg.column))
           \/ check_if_symbol_and_command_injection(r.arg.where)
        THEN Refuse(r)
        ELSE IF r.arg.column = <<>>
        THEN Goto(r, <<"qb_get_table_column_names", "qb_update_resolved">>)
        ELSE UpdateBuild(r, r.arg.column))
update_resolved(t) ==
    /\ Top(t) = "qb_update_resolved" /\ MayRun(t)
    /\ Sync(t, LET r == task[t] IN
        IF r.retv = "data" THEN UpdateBuild(r, r.data) ELSE Ret(r, "error"))

remove_data_from_table(t) ==
    /\ Top(t) = "qb_remove_data_from_table" /\ MayRun(t)
    /\ Sync(t, LET r == task[t] IN
        IF check_if_sql_injection(r.arg.table) \/ check_if_symbol_and_command_injection(r.arg.where)
        THEN Refuse(r)
        ELSE Send(r, "rec_begin", DeleteQuery(r.arg.table, r.arg.where), <<>>, <<>>))

\* get_data_from_table(table=table, column=columns, where="", beautify=False)
UpsertFetch(r, columns) ==
    Goto([r EXCEPT !.arg.column = columns, !.arg.where = <<>>, !.arg.beautify = FALSE],
         <<"qb_get_data_from_table", "qb_upsert_fetched">>)
insert_or_update_data_into_table(t) ==
    /\ Top(t) = "qb_insert_or_update_data_into_table" /\ MayRun(t)
    /\ Sync(t, LET r == task[t] IN
        IF check_if_injections_in_strings(Strings(<<r.arg.table>> \o r.arg.column)) THEN Refuse(r)
        ELSE IF r.arg.column = <<>>
        THEN Goto(r, <<"qb_get_table_column_names", "qb_upsert_resolved">>)
        ELSE UpsertFetch(r, r.arg.column))
upsert_resolved(t) ==
    /\ Top(t) = "qb_upsert_resolved" /\ MayRun(t)
    /\ Sync(t, LET r == task[t] IN
        IF r.retv = "data" THEN UpsertFetch(r, r.data) ELSE Ret(r, "error"))

\* f"{columns[0]} = {node0}"
KeyPredicate(columns, line) == columns[1] \o <<" ", "=", " ">> \o Str(line[1])
\* the first-column key of the line is one of the fetched rows' keys
KeyPresent(content, line) ==
    \E i \in 1..Len(content) : Str(content[i][1]) = Str(line[1])
\* table_content_dict[str(line[0])] = line for the fetched rows, then
\* "node0 in table_content_dict"
InLookupNever(content, line) == FALSE
InLookup(content, line) ==
    Str(line[1]) \in { Str(content[i][1]) : i \in 1..Len(content) }
\* update_data_in_table(table, line, columns, predicate) when the key was
\* found, else insert_data_into_table(table, line, columns); then go on at cont
UpsertLine(r, line, found, cont) ==
    IF found
    THEN Goto([r EXCEPT !.arg.where = KeyPredicate(r.arg.column, line),
                        !.arg.data = <<line>>, !.arg.batch = FALSE],
              <<"qb_update_data_in_table">> \o cont)
    ELSE Goto([r EXCEPT !.arg.data = <<line>>, !.arg.batch = FALSE],
              <<"qb_insert_data_into_table">> \o cont)
upsert_fetched(t) ==
    /\ Top(t) = "qb_upsert_fetched" /\ MayRun(t)
    /\ Sync(t, LET r == task[t] IN
        IF r.retv # "data" THEN Ret(r, "error")
        ELSE LET r1 == [r EXCEPT !.content = r.data, !.row = 1]
             IN  IF r.req.batch THEN Goto(r1, <<"qb_upsert_next">>)
                 ELSE IF r.req.data = <<>> \/ r.req.data[1] = <<>> THEN Ret(r1, "success")
                 ELSE UpsertLine(r1, r.req.data[1], KeyPresent(r1.content, r.req.data[1]), <<>>))
\* (added of a task: the rows of its batch whose insert_data_into_table
\* returned success so far.)
Added(r) ==
    IF /\ r.row > 1 /\ r.retv = "success" /\ r.req.data[r.row - 1] # <<>>
       /\ ~InLookup(r.content, r.req.data[r.row - 1])
    THEN Append(r.added, r.req.data[r.row - 1])
    ELSE r.added
\* for line in data: the result of each update or insert is dropped
upsert_next(t) ==
    /\ Top(t) = "qb_upsert_next" /\ MayRun(t)
    /\ Sync(t, LET r == [task[t] EXCEPT !.added = Added(task[t])] IN
        IF r.row > Len(r.req.data) THEN Ret(r, "success")
        ELSE IF r.req.data[r.row] = <<>> THEN [r EXCEPT !.row = @ + 1, !.retv = "none"]
        ELSE UpsertLine([r EXCEPT !.row = @ + 1], r.req.data[r.row],
                        InLookup(r.content, r.req.data[r.row]), <<"qb_upsert_next">>))


\* ----------------------------------------------- callers of the manager
\* Cells and statements the callers use.
Key1 == <<"1">>
Name1 == <<"gadget">>
Name2 == <<"gadget-v2">>
InitialTables == {TableOf(<<>>), TableOf(<< <<Key1, Name1>> >>)}

WriteStatements ==
    { [text |-> InsertQuery(TableName, ColumnNames, 1), params |-> <<Key1, Name1>>],
      [text |-> UpdateQuery(TableName, <<ColumnNames[2]>>, <<"id", "=", SQ, "1", SQ>>),
       params |-> <<Name2>>] }
ReadStatements ==
    { [text |-> SelectQuery(TableName, <<"*">>, <<>>), params |-> <<>>] }

Idle(t) == task[t].pc = <<>> /\ running = 0 /\ calls < MaxCalls
\* The cursors a caller can pass: none, or the one it obtained from get_cursor.
OwnCursors(t) == {0} \cup (IF task[t].held # 0 THEN {task[t].held} ELSE {})

Start(t, op, frames, q, cur) ==
    /\ task' = [task EXCEPT ![t] = [InitTask EXCEPT !.op = op, !.pc = frames,
                    !.query = q, !.cursor = cur, !.held = task[t].held,
                    !.probe = connection, !.connection = connection]]
    /\ calls' = calls + 1
    /\ running' = t

Call_initialise_pool(t) ==
    /\ Idle(t) /\ nextConn <= MaxConn
    /\ Start(t, "initialise_pool", <<"ip_begin">>, NoQuery, 0)
    /\ UNCHANGED <<mgrVars, facade, hostVars, engineVars, ghostVars>>

Call_run_and_commit(t) ==
    /\ Idle(t)
    /\ \E q \in WriteStatements, cur \in OwnCursors(t) :
        Start(t, "run_and_commit", <<"rc_begin">>, q, cur)
    /\ UNCHANGED <<mgrVars, facade, hostVars, engineVars, ghostVars>>

Call_run_and_fetch_all(t) ==
    /\ Idle(t)
    /\ \E q \in ReadStatements \cup WriteStatements, cur \in OwnCursors(t) :
        Start(t, "run_and_fetch_all", <<"rf_begin">>, q, cur)
    /\ UNCHANGED <<mgrVars, facade, hostVars, engineVars, ghostVars>>

\* cursor = await manager.get_cursor(manager.get_connection())
Call_get_cursor(t) ==
    /\ Idle(t) /\ connection # 0
    /\ Start(t, "get_cursor", <<"gc_begin">>, NoQuery, 0)
    /\ UNCHANGED <<mgrVars, facade, hostVars, engineVars, ghostVars>>

\* await manager.is_connection_active(manager.connection)
Call_is_connection_active(t) ==
    /\ Idle(t)
    /\ Start(t, "is_connection_active", <<"ica_begin">>, NoQuery, 0)
    /\ UNCHANGED <<mgrVars, facade, hostVars, engineVars, ghostVars>>

Call_destroy_pool(t) ==
    /\ Idle(t)
    /\ Start(t, "destroy_pool", <<"dp_begin">>, NoQuery, 0)
    /\ UNCHANGED <<mgrVars, facade, hostVars, engineVars, ghostVars>>

\* ------------------------------------------------------------ SQL facade
\* The data methods of the facade and the boilerplate entry each forwards to.
Wrappers ==
    [create_table |-> "qb_create_table", create_trigger |-> "qb_insert_trigger",
     get_table_column_names |-> "qb_get_table_column_names",
     get_table_names |-> "qb_get_table_names", get_triggers |-> "qb_get_triggers",
     get_trigger |-> "qb_get_trigger", get_trigger_names |-> "qb_get_trigger_names",
     describe_table |-> "qb_describe_table", insert_trigger |-> "qb_insert_trigger",
     insert_data_into_table |-> "qb_insert_data_into_table",
     get_data_from_table |-> "qb_get_data_from_table",
     get_table_size |-> "qb_get_table_size",
     update_data_in_table |-> "qb_update_data_in_table",
     insert_or_update_data_into_table |-> "qb_insert_or_update_data_into_table",
     insert_or_update_trigger |-> "qb_insert_or_update_trigger",
     remove_data_from_table |-> "qb_remove_data_from_table",
     drop_data_from_table |-> "qb_remove_data_from_table",
     remove_table |-> "qb_remove_table", drop_table |-> "qb_remove_table",
     remove_trigger |-> "qb_remove_trigger", drop_trigger |-> "qb_remove_trigger"]

\* The methods that begin with
\* if self.sql_query_boilerplates is None: raise RuntimeError(self._runtime_error_string)
AllButOneGuarded == DOMAIN Wrappers \ {"get_table_size"}
GuardedMethods == DOMAIN Wrappers

\* What a wrapper passes on: drop_data_from_table passes the table only.
Forwarded(req) ==
    IF req.op = "drop_data_from_table" THEN [req EXCEPT !.where = <<>>] ELSE req

\* The callers hold an instance: one built by the constructor, or the one
\* create() returned (also after close()).
InstanceHeld ==
    ~facade.made \/ facade.sql_query_boilerplates \/ ~facade.sql_manage_connections

\* sql = await SQL.create(...)
SQL_create(t) ==
    /\ Idle(t) /\ ~facade.made /\ nextConn <= MaxConn
    /\ Start(t, "create", <<"ip_begin", "create_bind">>, NoQuery, 0)
    /\ facade' = [NewFacade EXCEPT !.made = TRUE]
    /\ UNCHANGED <<mgrVars, hostVars, engineVars, ghostVars>>

\* if await initialise_pool() != self.success: raise RuntimeError; then the
\* boilerplates are bound
create_bind(t) ==
    /\ Top(t) = "create_bind" /\ MayRun(t)
    /\ IF task[t].retv = "success"
       THEN /\ SetTask(t, Ret(task[t], "success"))
            /\ facade' = [facade EXCEPT !.sql_query_boilerplates = TRUE]
       ELSE /\ SetTask(t, Raise(task[t], "RuntimeError"))
            /\ UNCHANGED facade
    /\ Continue(t)
    /\ UNCHANGED <<mgrVars, calls, hostVars, engineVars, ghostVars>>

ClosedKeepsSurface == [facade EXCEPT !.sql_manage_connections = FALSE, !.closes = @ + 1]
Closed ==
    [facade EXCEPT !.sql_manage_connections = FALSE, !.sql_query_boilerplates = FALSE,
                   !.closes = @ + 1]

\* await sql.close()
SQL_close(t) ==
    /\ Idle(t) /\ InstanceHeld
    /\ IF facade.sql_manage_connections
       THEN /\ Start(t, "close", <<"dp_begin", "close_done">>, NoQuery, 0)
            /\ UNCHANGED facade
       ELSE /\ SetTask(t, [InitTask EXCEPT !.op = "close", !.outcome = "None", !.held = task[t].held])
            /\ calls' = calls + 1
            /\ running' = 0
            /\ facade' = Closed
    /\ UNCHANGED <<mgrVars, hostVars, engineVars, ghostVars>>

\* except Exception: logged; then the references are cleared
close_done(t) ==
    /\ Top(t) = "close_done" /\ MayRun(t)
    /\ SetTask(t, Ret([task[t] EXCEPT !.exc = "none"], "None"))
    /\ facade' = Closed
    /\ Continue(t)
    /\ UNCHANGED <<mgrVars, calls, hostVars, engineVars, ghostVars>>

\* await sql.<method>(...): the guard, then the forwarded boilerplate call
\* (repeats of a task: its previous facade call had the same arguments and
\* returned success.)
Repeats(t, req) == task[t].req = req /\ task[t].outcome = "success"
\* (inserted of a task: the rows its previous facade call inserted with
\* insert_data_into_table into the table the present call names.)
Inserted(t, req) ==
    IF /\ task[t].op = "insert_data_into_table" /\ task[t].outcome = "success"
       /\ task[t].req.table = req.table
    THEN task[t].req.data ELSE <<>>
SQL_call(t, req) ==
    /\ Idle(t) /\ InstanceHeld
    /\ IF req.op \in GuardedMethods /\ ~facade.sql_query_boilerplates
       THEN /\ SetTask(t, [InitTask EXCEPT !.op = req.op, !.req = req, !.held = task[t].held,
                               !.repeats = Repeats(t, req), !.inserted = Inserted(t, req),
                               !.outcome = "RuntimeError(method not initialized)"])
            /\ calls' = calls + 1
            /\ running' = 0
       ELSE IF ~facade.sql_query_boilerplates
       THEN /\ SetTask(t, [InitTask EXCEPT !.op = req.op, !.req = req, !.held = task[t].held,
                               !.repeats = Repeats(t, req), !.inserted = Inserted(t, req),
                               !.outcome = "AttributeError"])
            /\ calls' = calls + 1
            /\ running' = 0
       ELSE /\ task' = [task EXCEPT ![t] = [InitTask EXCEPT !.op = req.op,
                            !.pc = <<Wrappers[req.op]>>, !.req = req,
                            !.arg = Forwarded(req), !.held = task[t].held,
                            !.before = db, !.repeats = Repeats(t, req), !.inserted = Inserted(t, req),
                            !.overlapped = \E u \in Tasks \ {t} : task[u].pc # <<>>]]
            /\ calls' = calls + 1
            /\ running' = t
    /\ UNCHANGED <<mgrVars, facade, hostVars, engineVars, ghostVars>>

\* ------------------------------------------------------------- wsgi_lock
\* Host processes started by the WSGI launcher; a process id is its index.
MAX_AGE_SECONDS == 600
NoLockfile == [exists |-> FALSE, ino |-> 0, pid |-> 0, ts |-> 0, written |-> FALSE]
\* pid, ts: what the process read from the lockfile; stamp: the time it last
\* wrote into a lockfile; lapsed: its lockfile has been older than the limit.
NewProc ==
    [pc |-> "start", alive |-> TRUE, pid |-> 0, ts |-> 0, granted |-> FALSE,
     stamp |-> 0, lapsed |-> FALSE]
dataVars == <<mgrVars, running, task, calls, facade, engineVars, ghostVars, guardVars>>

\* os.kill(pid, 0) succeeds
is_pid_alive(pid) == pid > 0 /\ pid \in Procs /\ proc[pid].alive

SetProc(p, r) == proc' = [proc EXCEPT ![p] = r]
At(p, pc) == proc[p].alive /\ proc[p].pc = pc

\* fd = os.open(LOCKFILE, os.O_CREAT | os.O_EXCL | os.O_WRONLY)
acquire_lockfile_open(p) ==
    /\ proc[p].alive /\ proc[p].pc \in {"start", "retry"}
    /\ IF lockfile.exists
       THEN /\ SetProc(p, [proc[p] EXCEPT !.pc = "read"])
            /\ UNCHANGED lockfile
       ELSE /\ SetProc(p, [proc[p] EXCEPT !.pc = "write"])
            /\ lockfile' = [NoLockfile EXCEPT !.exists = TRUE, !.ino = p]
    /\ UNCHANGED <<now, dataVars>>

\* f.write(f"{os.getpid()}\n{time.time()}") through the descriptor, return
\* True; acquire_wsgi_lock then starts the refresh thread
acquire_lockfile_write(p) ==
    /\ At(p, "write")
    /\ lockfile' = IF lockfile.exists /\ lockfile.ino = p
                   THEN [lockfile EXCEPT !.pid = p, !.ts = now, !.written = TRUE]
                   ELSE lockfile
    /\ SetProc(p, [proc[p] EXCEPT !.pc = "running", !.granted = TRUE, !.stamp = now])
    /\ UNCHANGED <<now, dataVars>>

\* except FileExistsError: the content is read; a missing file or a content
\* that is not two lines returns False
acquire_lockfile_read(p) ==
    /\ At(p, "read")
    /\ SetProc(p, IF lockfile.exists /\ lockfile.written
                  THEN [proc[p] EXCEPT !.pc = "check", !.pid = lockfile.pid, !.ts = lockfile.ts]
                  ELSE [proc[p] EXCEPT !.pc = "refused"])
    /\ UNCHANGED <<lockfile, now, dataVars>>

\* if (time.time() - ts) > MAX_AGE_SECONDS or not is_pid_alive(pid)
acquire_lockfile_check(p) ==
    /\ At(p, "check")
    /\ SetProc(p, IF now > proc[p].ts + MAX_AGE_SECONDS \/ ~is_pid_alive(proc[p].pid)
                  THEN [proc[p] EXCEPT !.pc = "unlink"]
                  ELSE [proc[p] EXCEPT !.pc = "refused"])
    /\ UNCHANGED <<lockfile, now, dataVars>>

\* LOCKFILE.unlink(); return acquire_lockfile()   (except Exception: False)
acquire_lockfile_unlink(p) ==
    /\ At(p, "unlink")
    /\ IF lockfile.exists
       THEN /\ lockfile' = NoLockfile
            /\ SetProc(p, [proc[p] EXCEPT !.pc = "retry"])
       ELSE /\ SetProc(p, [proc[p] EXCEPT !.pc = "refused"])
            /\ UNCHANGED lockfile
    /\ UNCHANGED <<now, dataVars>>

\* refresh_loop: if LOCKFILE.exists() and the pid it holds is ours
refresh_loop_read(p) ==
    /\ At(p, "running")
    /\ lockfile.exists /\ lockfile.written /\ lockfile.pid = p
    /\ SetProc(p, [proc[p] EXCEPT !.pc = "refresh"])
    /\ UNCHANGED <<lockfile, now, dataVars>>

\* with open(LOCKFILE, 'w') as f: f.write(f"{pid}\n{time.time()}")
refresh_loop_write(p) ==
    /\ At(p, "refresh")
    /\ lockfile' = [exists |-> TRUE, ino |-> IF lockfile.exists THEN lockfile.ino ELSE p,
                    pid |-> p, ts |-> now, written |-> TRUE]
    /\ SetProc(p, [proc[p] EXCEPT !.pc = "running", !.stamp = now])
    /\ UNCHANGED <<now, dataVars>>

\* The host ends a process at any point.
process_exit(p) ==
    /\ proc[p].alive
    /\ SetProc(p, [proc[p] EXCEPT !.alive = FALSE])
    /\ UNCHANGED <<lockfile, now, dataVars>>

\* Time passes; a granted process whose last write is older than the limit
\* has a stale lockfile from then on.
clock_tick ==
    /\ now < MaxTime
    /\ now' = now + TickSeconds
    /\ proc' = [p \in Procs |->
                  [proc[p] EXCEPT !.lapsed = @ \/ (proc[p].granted /\ now' > proc[p].stamp + MAX_AGE_SECONDS)]]
    /\ UNCHANGED <<lockfile, dataVars>>

\* ------------------------------------------------------- the manager alone
ConstructedFor(tables, errors) ==
    /\ connection = 0 /\ lockHolder = 0 /\ waiters = <<>>
    /\ running = 0
    /\ task = [t \in Tasks |-> InitTask]
    /\ calls = 0
    /\ facade = NewFacade
    /\ connOpen = {} /\ nextConn = 1
    /\ db \in tables
    /\ txn = [c \in ConnIds |-> NoTxn]
    /\ faults = 0 /\ allowed = errors
    /\ section = 0 /\ intruded = FALSE /\ opened = FALSE
    /\ lockfile = NoLockfile /\ proc = [p \in Procs |-> NewProc] /\ now = 0
    /\ verdict = NoVerdict /\ returned = NotReturned
    /\ cycle = NewCycle /\ handler = NewHandler
Constructed(tables) == ConstructedFor(tables, MaxFaults)
InitWith(tables) == Constructed(tables) /\ argument = <<>> /\ bot = NewBot
Init == InitWith(InitialTables)

ManagerStep(t) ==
    \/ LockGranted(t)
    \/ ICA_Begin(t) \/ ICA_Select(t) \/ ICA_Fetchone(t) \/ ICA_Done(t)
    \/ GC_Begin(t) \/ GC_Probed(t) \/ GC_Cursor(t)
    \/ CC_Begin(t) \/ CC_Close(t) \/ CC_Closed(t)
    \/ RCN_Begin(t) \/ RCN_Probed(t) \/ RCN_Close(t) \/ RCN_Closed(t)
    \/ REL_Begin(t) \/ REL_CursorDone(t) \/ REL_ConnDone(t)
    \/ Reraise(t)
    \/ RC_Begin(t) \/ RC_Try(t) \/ RC_Execute(t) \/ RC_Executed(t)
    \/ RC_Committed(t) \/ RC_Return(t)
    \/ RF_Begin(t) \/ RF_Try(t) \/ RF_Execute(t) \/ RF_Executed(t)
    \/ RF_Fetched(t) \/ RF_Return(t)
    \/ DP_Begin(t) \/ DP_Close(t) \/ DP_Closed(t)
    \/ IP_Connect(t) \/ IP_Pragma(t) \/ IP_Committed(t)

Next ==
    \E t \in Tasks :
        \/ ManagerStep(t)
        \/ Call_initialise_pool(t) \/ Call_run_and_commit(t)
        \/ Call_run_and_fetch_all(t) \/ Call_get_cursor(t)
        \/ Call_is_connection_active(t) \/ Call_destroy_pool(t)

Spec == Init /\ [][Next]_vars


\* ------------------------------------------------------------ cancellation
\* task.cancel() while the coroutine is suspended at an await: CancelledError
\* is raised there.  It is not an Exception, so no except clause of the
\* manager takes it; every "async with self._lock" block it leaves releases
\* the lock, and a pending lock.acquire() takes its waiter out of the queue.
LockKeptOnExit(t) == lockHolder
LockAfterExit(t) == Released(t)

\* Where the task stood with respect to the lock when it was cancelled.
LockPosition(t) ==
    IF lockHolder = t THEN "holding"
    ELSE IF Top(t) = "lockwait" THEN "waiting"
    ELSE "outside"

Cancel(t) ==
    /\ task[t].pc # <<>> /\ running = 0
    /\ SetTask(t, [Ended(task[t], "CancelledError") EXCEPT !.cancelled = LockPosition(t)])
    /\ lockHolder' = LockAfterExit(t)
    /\ waiters' = SelectSeq(waiters, LAMBDA u : u # t)
    /\ running' = 0
    /\ section' = IF section = t THEN 0 ELSE section
    /\ UNCHANGED <<connection, callerVars, engineVars, intruded, opened>>

\* The manager with callers that may be cancelled at any await.
NextCancel ==
    \E t \in Tasks :
        \/ ManagerStep(t)
        \/ Call_initialise_pool(t) \/ Call_run_and_commit(t)
        \/ Call_run_and_fetch_all(t) \/ Call_get_cursor(t)
        \/ Call_is_connection_active(t) \/ Call_destroy_pool(t)
        \/ Cancel(t)
SpecCancel == Init /\ [][NextCancel]_vars

\* ------------------------------------------------- the facade in use
Key2 == <<"2">>
KeyD == <<"a", "--", "b">>
FlaggedTable == <<"widgets", ";">>
FlaggedColumns == << <<"id">>, <<"name", "--">> >>
GoodWhere == <<"id", "=", "1">>
FlaggedWhere == <<"id", "=", "1", ";">>
TriggerName == <<"trg">>
TriggerSql == <<"CREATE TRIGGER ", "trg", " AFTER INSERT ON widgets BEGIN SELECT 1; END;">>

Req(op, table, column, where, data, batch) ==
    [NoArgs EXCEPT !.op = op, !.table = table, !.column = column, !.where = where,
                   !.data = data, !.batch = batch]

TableRequests ==
    { Req(op, tb, ColumnNames, <<>>, <<>>, FALSE) :
        op \in {"create_table", "get_table_column_names", "describe_table", "remove_table",
                "drop_table", "drop_data_from_table"},
        tb \in {TableName, FlaggedTable} }
    \cup { Req(op, <<>>, <<>>, <<>>, <<>>, FALSE) :
             op \in {"get_table_names", "get_triggers", "get_trigger_names"} }
    \cup { Req("create_table", TableName, FlaggedColumns, <<>>, <<>>, FALSE) }
TriggerRequests ==
    { [Req(op, nm, <<>>, <<>>, <<>>, FALSE) EXCEPT !.sql = TriggerSql] :
        op \in {"create_trigger", "insert_trigger", "insert_or_update_trigger", "get_trigger",
                "remove_trigger", "drop_trigger"},
        nm \in {TriggerName, <<"trg", ";">>} }
ReadRequests ==
    { [Req(op, tb, col, w, <<>>, FALSE) EXCEPT !.beautify = b] :
        op \in {"get_data_from_table"}, tb \in {TableName, FlaggedTable},
        col \in {<< <<"*">> >>, FlaggedColumns}, w \in {<<>>, GoodWhere, FlaggedWhere},
        b \in BOOLEAN }
    \cup { Req("get_table_size", TableName, << <<"*">> >>, w, <<>>, FALSE) :
             w \in {<<>>, GoodWhere, FlaggedWhere} }
    \cup { Req("remove_data_from_table", TableName, <<>>, w, <<>>, FALSE) :
             w \in {<<>>, GoodWhere, FlaggedWhere} }
WriteRequests ==
    { Req(op, tb, col, <<>>, << <<k, Name2>> >>, FALSE) :
        op \in {"insert_data_into_table", "insert_or_update_data_into_table"},
        tb \in {TableName, FlaggedTable}, col \in {ColumnNames, <<>>, FlaggedColumns},
        k \in {Key1, Key2, KeyD} }
    \cup { Req(op, TableName, ColumnNames, <<>>, << <<Key1, Name2>>, <<Key2, <<"x", ";">> >> >>, TRUE) :
             op \in {"insert_data_into_table", "insert_or_update_data_into_table"} }
    \cup { Req("update_data_in_table", TableName, col, w, << <<Key1, c>> >>, FALSE) :
             col \in {ColumnNames, <<>>, FlaggedColumns}, w \in {GoodWhere, FlaggedWhere},
             c \in {Name2, <<"DROP", ";">>} }
Requests == TableRequests \cup TriggerRequests \cup ReadRequests \cup WriteRequests

FacadeTables ==
    {NoTable, TableOf(<<>>), TableOf(<< <<Key1, Name1>> >>), TableOf(<< <<KeyD, Name1>> >>)}
InitFacade == InitWith(FacadeTables)

BoilerplateStep(t) ==
    \/ get_triggers(t) \/ get_table_names(t) \/ get_trigger_names(t) \/ listed(t)
    \/ describe_table(t) \/ described(t)
    \/ get_table_column_names(t) \/ column_names(t)
    \/ get_trigger(t) \/ got_trigger(t)
    \/ create_table(t) \/ remove_table(t) \/ ddl_done(t)
    \/ insert_trigger(t) \/ remove_trigger(t) \/ trigger_done(t)
    \/ insert_or_update_trigger(t) \/ trigger_replaced(t)
    \/ get_table_size(t) \/ got_size(t)
    \/ remove_data_from_table(t)
    \/ insert_resolved(t) \/ update_resolved(t) \/ upsert_resolved(t)
    \/ beautify(t)

UpsertStep(t) ==
    \/ insert_or_update_data_into_table(t) \/ upsert_fetched(t) \/ upsert_next(t)
    \/ get_data_from_table(t) \/ got_data(t)
    \/ insert_data_into_table(t) \/ update_data_in_table(t)

\* The manager below the facade: the callers pass no cursor of their own.
PoolWork(t) ==
    \/ ICA_Begin(t) \/ ICA_Select(t) \/ ICA_Fetchone(t) \/ ICA_Done(t)
    \/ GC_Begin(t) \/ GC_Probed(t) \/ GC_Cursor(t)
    \/ CC_Begin(t) \/ CC_Close(t) \/ CC_Closed(t)
    \/ RCN_Begin(t) \/ RCN_Probed(t) \/ RCN_Close(t) \/ RCN_Closed(t)
    \/ REL_Begin(t) \/ REL_CursorDone(t) \/ REL_ConnDone(t)
    \/ RC_Begin(t) \/ RC_Try(t) \/ RC_Execute(t) \/ RC_Executed(t)
    \/ RC_Committed(t) \/ RC_Return(t) \/ Reraise(t)
    \/ RF_Begin(t) \/ RF_Try(t) \/ RF_Execute(t) \/ RF_Executed(t)
    \/ RF_Fetched(t) \/ RF_Return(t)
    \/ REC_Begin(t) \/ REC_Done(t)
    \/ IP_Connect(t) \/ IP_Pragma(t) \/ IP_Committed(t)
    \/ create_bind(t)
PoolStep(t) == LockGranted(t) \/ PoolWork(t)

\* One task works through the facade while another may close it.
NextFacade ==
    \/ SQL_create(1)
    \/ \E req \in Requests : SQL_call(1, req)
    \/ SQL_close(2)
    \/ \E t \in Tasks :
        \/ PoolStep(t) \/ BoilerplateStep(t) \/ UpsertStep(t)
        \/ DP_Begin(t) \/ DP_Close(t) \/ DP_Closed(t) \/ close_done(t)
SpecFacade == InitFacade /\ [][NextFacade]_vars

\* Two tasks write rows with the same first-column key through one facade.
UpsertRequests ==
    { Req("insert_or_update_data_into_table", TableName, ColumnNames, <<>>, << <<k, n>> >>, FALSE) :
        k \in {Key1, Key2}, n \in {Name1, Name2} }
    \cup { Req("insert_or_update_data_into_table", TableName, ColumnNames, <<>>,
                << <<Key1, Name2>>, <<Key2, Name1>> >>, TRUE) }
NextUpsert ==
    \/ SQL_create(1)
    \/ \E t \in Tasks, req \in UpsertRequests : SQL_call(t, req)
    \/ \E t \in Tasks : PoolStep(t) \/ UpsertStep(t)
SpecUpsert == InitWith(InitialTables) /\ [][NextUpsert]_vars

\* Two callers that await each upsert before the next one starts and may
\* cancel it at any await, the second one writing a batch of one row, and an
\* engine that raises up to MaxBatchFaults errors.
KeyR == <<"DROP">>
BatchTables ==
    {TableOf(<<>>), TableOf(<< <<Key1, Name1>> >>), TableOf(<< <<KeyR, Name1>> >>)}
Upsert(data, batch) ==
    Req("insert_or_update_data_into_table", TableName, ColumnNames, <<>>, data, batch)
BatchRequests ==
    { Upsert(<< <<Key1, Name2>> >>, b) : b \in BOOLEAN }
    \cup { Upsert(<< <<Key2, Name1>>, <<Key2, Name2>> >>, TRUE),
           Upsert(<< <<KeyR, Name2>> >>, TRUE) }
NextBatch ==
    \/ SQL_create(1)
    \/ \E req \in BatchRequests :
         (\A u \in Tasks : task[u].pc = <<>>) /\ SQL_call(1, req)
    \/ (\A u \in Tasks : task[u].pc = <<>>) /\ SQL_call(2, Upsert(<< <<Key1, Name2>> >>, TRUE))
    \/ \E t \in Tasks : PoolWork(t) \/ UpsertStep(t) \/ Cancel(t)
InitBatch == ConstructedFor(BatchTables, MaxBatchFaults) /\ argument = <<>> /\ bot = NewBot
SpecBatch == InitBatch /\ [][NextBatch]_vars

\* ------------------------------------------------- the launcher's processes
NextLock ==
    \/ clock_tick
    \/ \E p \in Procs :
        \/ acquire_lockfile_open(p) \/ acquire_lockfile_write(p)
        \/ acquire_lockfile_read(p) \/ acquire_lockfile_check(p)
        \/ acquire_lockfile_unlink(p)
        \/ refresh_loop_read(p) \/ refresh_loop_write(p)
        \/ process_exit(p)
SpecLock == InitWith({NoTable}) /\ [][NextLock]_vars

\* The launcher starts a worker again after one that skipped the bot; the new
\* worker makes its own acquire_wsgi_lock call.
worker_restarted(p) ==
    /\ At(p, "refused")
    /\ SetProc(p, [proc[p] EXCEPT !.pc = "start", !.pid = 0, !.ts = 0])
    /\ UNCHANGED <<lockfile, now, dataVars>>

\* One process's steps of acquire_lockfile, and its next start.
Acquiring(p) ==
    \/ acquire_lockfile_open(p) \/ acquire_lockfile_write(p)
    \/ acquire_lockfile_read(p) \/ acquire_lockfile_check(p)
    \/ acquire_lockfile_unlink(p)
    \/ worker_restarted(p)
NextRelaunch ==
    \/ clock_tick
    \/ \E p \in Procs :
        \/ Acquiring(p)
        \/ refresh_loop_read(p) \/ refresh_loop_write(p)
        \/ process_exit(p)
\* A process that lives goes on with its call, and the launcher goes on
\* starting workers; nothing makes the clock advance or a process end.
SpecRelaunch ==
    /\ InitWith({NoTable})
    /\ [][NextRelaunch]_vars
    /\ \A p \in Procs : WF_vars(Acquiring(p))

\* ------------------------------------------------- the guard's predicates
\* The strings handed to the checks: None and up to MaxPieces pieces.
GuardPieces == {"x", ";", "DROP", "drop", "OR", ";base64", "QUJD"}
GuardStrings ==
    {Null} \cup UNION { [1..n -> GuardPieces] : n \in 0..MaxPieces }

\* One call of each predicate on the argument; everything but its answer stays.
restVars == <<argument, returned, bot, allowed, cycle, handler, lockfile, proc, now, mgrVars, running, task, calls,
              facade, engineVars, ghostVars>>
Answered(c, b) == [verdict EXCEPT ![c] = Bool(b)]

call_symbol ==
    /\ verdict["symbol"] = "none"
    /\ verdict' = Answered("symbol", check_if_symbol_sql_injection(argument))
    /\ UNCHANGED restVars

call_command ==
    /\ verdict["command"] = "none"
    /\ verdict' = Answered("command", check_if_command_sql_injection(argument))
    /\ UNCHANGED restVars

call_logic_gate ==
    /\ verdict["logic_gate"] = "none"
    /\ verdict' = Answered("logic_gate", check_if_logic_gate_sql_injection(argument))
    /\ UNCHANGED restVars

call_symbol_and_command ==
    /\ verdict["symbol_and_command"] = "none"
    /\ verdict' = Answered("symbol_and_command", check_if_symbol_and_command_injection(argument))
    /\ UNCHANGED restVars

call_symbol_and_logic_gate ==
    /\ verdict["symbol_and_logic_gate"] = "none"
    /\ verdict' = Answered("symbol_and_logic_gate", check_if_symbol_and_logic_gate_injection(argument))
    /\ UNCHANGED restVars

call_command_and_logic_gate ==
    /\ verdict["command_and_logic_gate"] = "none"
    /\ verdict' = Answered("command_and_logic_gate", check_if_command_and_logic_gate_injection(argument))
    /\ UNCHANGED restVars

call_sql_injection ==
    /\ verdict["sql_injection"] = "none"
    /\ verdict' = Answered("sql_injection", check_if_sql_injection(argument))
    /\ UNCHANGED restVars

InitGuard == Constructed({NoTable}) /\ argument \in GuardStrings /\ bot = NewBot
NextGuard ==
    \/ call_symbol \/ call_command \/ call_logic_gate
    \/ call_symbol_and_command \/ call_symbol_and_logic_gate
    \/ call_command_and_logic_gate \/ call_sql_injection
SpecGuard == InitGuard /\ [][NextGuard]_vars

\* The values handed to the scan of a collection: leaves, and lists of up to
\* MaxItems items that are leaves or lists of at most one leaf.
ScanLeaves == {PyNone, PyOther, PyInt("5"), PyStr(<<"x">>), PyStr(<<";">>)}
ListsOf(items, n) == { PyList(l) : l \in UNION { [1..k -> items] : k \in 0..n } }
ScanValues == ScanLeaves \cup ListsOf(ScanLeaves \cup ListsOf(ScanLeaves, 1), MaxItems)

call_injections_in_strings ==
    /\ verdict["injections_in_strings"] = "none"
    /\ verdict' = Answered("injections_in_strings", check_if_injections_in_strings(argument))
    /\ UNCHANGED restVars

InitScan == Constructed({NoTable}) /\ argument \in ScanValues /\ bot = NewBot
NextScan == call_injections_in_strings
SpecScan == InitScan /\ [][NextScan]_vars

\* ------------------------------------------------------------- the bot
\* Everything but the bot.
botRest == <<argument, verdict, returned, allowed, cycle, handler, lockfile, proc, now, mgrVars, running, task,
             calls, facade, engineVars, ghostVars>>
BotReturns(v) == [bot EXCEPT !.pc = "done", !.result = v]

\* await self._send_message(message, recall=recall)
Call_send_message(recall) ==
    /\ bot.pc = "idle" /\ bot.result = "none"
    /\ bot' = [bot EXCEPT !.pc = "_send_message", !.recall = recall]
    /\ UNCHANGED botRest

\* the checks of _send_message up to await self._get_channel_connection(channel_id)
send_message ==
    /\ bot.pc = "_send_message"
    /\ bot' = IF ~bot.discord_client THEN BotReturns("ERROR")
              ELSE IF bot.message_channel = 0 THEN BotReturns("ERROR")
              ELSE [bot EXCEPT !.pc = "_get_channel_connection", !.fetch_recall = TRUE,
                               !.fetches = 0]
    /\ UNCHANGED botRest

get_channel_connection ==
    /\ bot.pc = "_get_channel_connection"
    /\ bot' = IF ~bot.discord_client THEN [bot EXCEPT !.pc = "channel", !.channel = "None"]
              ELSE IF bot.cached = "None" THEN [bot EXCEPT !.pc = "_attempt_channel_fetch"]
              ELSE [bot EXCEPT !.pc = "channel", !.channel = bot.cached]
    /\ UNCHANGED botRest

\* await self.discord_client.fetch_channel(channel_id) and its handlers
attempt_channel_fetch ==
    /\ bot.pc = "_attempt_channel_fetch"
    /\ \/ \E c \in Channels :
            bot' = [bot EXCEPT !.pc = "channel", !.channel = c, !.fetches = @ + 1]
       \/ /\ bot.errors < MaxDiscordErrors
          /\ bot' = IF bot.fetch_recall
                    THEN [bot EXCEPT !.pc = "_get_channel_connection", !.fetch_recall = FALSE,
                                     !.errors = @ + 1, !.fetches = @ + 1]
                    ELSE [bot EXCEPT !.pc = "channel", !.channel = "None", !.errors = @ + 1,
                                     !.fetches = @ + 1]
       \/ /\ bot.errors < MaxDiscordErrors
          /\ \E status \in {"SUCCESS", "ERROR"} :
                bot' = IF status # "SUCCESS"
                       THEN [bot EXCEPT !.pc = "channel", !.channel = "None", !.errors = @ + 1,
                                        !.fetches = @ + 1]
                       ELSE [bot EXCEPT !.fetch_recall = TRUE, !.errors = @ + 1,
                                        !.fetches = @ + 1]
    /\ UNCHANGED botRest

\* the checks of the channel that was found
send_message_channel ==
    /\ bot.pc = "channel"
    /\ bot' = IF bot.channel = "None" THEN BotReturns("ERROR")
              ELSE IF bot.channel # "TextChannel" THEN BotReturns("ERROR")
              ELSE [bot EXCEPT !.pc = "channel.send"]
    /\ UNCHANGED botRest

\* the recall handed to the call that retries
RecallKept == bot.recall
RecallOnRetry == FALSE
\* sent_msg = await channel.send(...) and the handlers of the try
channel_send ==
    /\ bot.pc = "channel.send"
    /\ \/ bot' = [BotReturns("SUCCESS") EXCEPT !.sends = @ + 1, !.message_id = 1]
       \/ /\ bot.errors < MaxDiscordErrors
          /\ \E e \in {"Forbidden", "HTTPException", "TimeoutError"} :
                bot' = IF e = "Forbidden"
                       THEN [BotReturns("ERROR") EXCEPT !.sends = @ + 1, !.errors = @ + 1]
                       ELSE IF e = "TimeoutError"
                       THEN [BotReturns(e) EXCEPT !.sends = @ + 1, !.errors = @ + 1]
                       ELSE IF bot.recall
                       THEN [bot EXCEPT !.pc = "_send_message", !.recall = RecallOnRetry,
                                        !.sends = @ + 1, !.errors = @ + 1]
                       ELSE [BotReturns("ERROR") EXCEPT !.sends = @ + 1, !.errors = @ + 1]
    /\ UNCHANGED botRest

InitBot ==
    /\ Constructed({NoTable}) /\ argument = <<>>
    /\ bot \in { [NewBot EXCEPT !.discord_client = d, !.message_channel = m, !.cached = c] :
                    d \in BOOLEAN, m \in {0, 7}, c \in {"None"} \cup Channels }
NextBot ==
    \/ \E recall \in BOOLEAN : Call_send_message(recall)
    \/ send_message \/ get_channel_connection \/ attempt_channel_fetch
    \/ send_message_channel \/ channel_send
SpecBot == InitBot /\ [][NextBot]_vars

\* ------------------------------------------------- the refresh cycles
\* Everything but the website's message.
cycleRest == <<argument, verdict, returned, bot, allowed, handler, lockfile, proc, now, mgrVars,
               running, task, calls, facade, engineVars, ghostVars>>
Statuses == {"SUCCESS", "ERROR"}

\* _send_message as _refresh_message_statuses sees it: when Discord accepts
\* the message it exists in the channel and discord_message.message_id is
\* its id; the cycle is over for this website either way.
SendMessage(status) ==
    IF status = "SUCCESS"
    THEN [cycle EXCEPT !.pc = "idle", !.live = @ \cup {cycle.next_id},
                       !.message_id = cycle.next_id, !.sent = cycle.next_id,
                       !.next_id = @ + 1]
    ELSE [cycle EXCEPT !.pc = "idle"]

\* refresh_message_id: the write of discord_message.message_id into the
\* messages table, which succeeds or does not.
RefreshMessageId(c, status) ==
    IF status = "SUCCESS"
    THEN [c EXCEPT !.stored = c.message_id]
    ELSE [c EXCEPT !.db_failed = TRUE]

\* _send_process: _send_message, and after a message was sent,
\* refresh_message_id.
SendProcess(status, written) ==
    IF status = "SUCCESS"
    THEN RefreshMessageId(SendMessage(status), written)
    ELSE SendMessage(status)

\* _refresh_message_statuses up to the loop: message_handler.run() returns
\* ERROR, or the website's DiscordMessage whose message_id is the stored id
\* (None when the lookup in the database failed).
refresh_message_statuses ==
    /\ cycle.pc = "idle"
    /\ cycle.cycles < MaxCycles
    /\ \E ran \in {"List", "ERROR"}, found \in BOOLEAN :
         cycle' = [cycle EXCEPT !.pc = IF ran = "List" THEN "message" ELSE "idle",
                                !.message_id = IF ran = "List" /\ found THEN cycle.stored ELSE 0,
                                !.cycles = @ + 1, !.sent = 0, !.db_failed = FALSE]
    /\ UNCHANGED cycleRest

\* if not message.message_id: await self._send_process(message)
send_process ==
    /\ cycle.pc = "message"
    /\ cycle.message_id = 0
    /\ \E status \in Statuses, written \in Statuses :
         /\ status = "SUCCESS" => cycle.next_id <= MaxMessages
         /\ cycle' = SendProcess(status, written)
    /\ UNCHANGED cycleRest

\* _check_message_presence: True when the fetch returns the message; a
\* message that exists can still fail to be fetched.
check_message_presence ==
    /\ cycle.pc = "message"
    /\ cycle.message_id # 0
    /\ \E fetched \in BOOLEAN :
         /\ fetched => cycle.message_id \in cycle.live
         /\ cycle' = [cycle EXCEPT !.pc = IF fetched THEN "present" ELSE "absent"]
    /\ UNCHANGED cycleRest

\* if not message_present: await self._send_message(message)
message_absent ==
    /\ cycle.pc = "absent"
    /\ \E status \in Statuses :
         /\ status = "SUCCESS" => cycle.next_id <= MaxMessages
         /\ cycle' = SendMessage(status)
    /\ UNCHANGED cycleRest

\* _update_message: the message is fetched again and edited; an edit that
\* meets NotFound (the message went away after the fetch) sends instead.
update_message ==
    /\ cycle.pc = "present"
    /\ \E edit \in {"edited", "NotFound", "HTTPException"}, status \in Statuses,
          written \in Statuses :
         /\ edit # "HTTPException" => cycle.message_id \in cycle.live
         /\ (edit = "NotFound" /\ status = "SUCCESS") => cycle.next_id <= MaxMessages
         /\ cycle' = IF edit = "NotFound"
                     THEN [SendProcess(status, written)
                             EXCEPT !.live = @ \ {cycle.message_id}]
                     ELSE [cycle EXCEPT !.pc = "idle"]
    /\ UNCHANGED cycleRest

\* Somebody deletes a message of the bot in the channel.
message_deleted ==
    /\ \E m \in cycle.live : cycle' = [cycle EXCEPT !.live = @ \ {m}]
    /\ UNCHANGED cycleRest

InitRefresh == InitWith({NoTable})
NextRefresh ==
    \/ refresh_message_statuses \/ send_process \/ check_message_presence
    \/ message_absent \/ update_message \/ message_deleted
SpecRefresh == InitRefresh /\ [][NextRefresh]_vars

\* -------------------------------------------------- the message handler
\* Everything but the handler.
handlerRest == <<argument, verdict, returned, bot, allowed, cycle, lockfile, proc, now, mgrVars,
                 running, task, calls, facade, engineVars, ghostVars>>
\* The entries of a configuration: an object that validates as a website, an
\* object that does not, and a value that is no object.
SchemaItems == {"website", "invalid", "scalar"}
\* A configuration: a list of entries, or a value that is no list.
ListOf(items) == [kind |-> "list", items |-> items]
NotAList == [kind |-> "object", items |-> <<>>]
MessageSchemas ==
    {NotAList} \cup { ListOf(items) : items \in UNION { [1..n -> SchemaItems] : n \in 0..MaxItems } }

\* _validate_json, the loop: the websites appended to processed_json before
\* the first entry that is refused (all of them when none is).
RECURSIVE Validated(_)
Validated(node) ==
    IF node = <<>> \/ Head(node) # "website"
    THEN <<>>
    ELSE <<Head(node)>> \o Validated(Tail(node))

\* _validate_json: processed_json is emptied, then filled.
ValidateJson(schema) ==
    IF schema.kind # "list"
    THEN [status |-> "ERROR", processed_json |-> <<>>]
    ELSE [status |-> IF Len(Validated(schema.items)) = Len(schema.items)
                     THEN "SUCCESS" ELSE "ERROR",
          processed_json |-> Validated(schema.items)]

\* MessageHandler(self.sqlite, self.config_content, ...)
handler_init(schema) ==
    /\ ~handler.made
    /\ handler' = [NewHandler EXCEPT !.made = TRUE, !.message_schema = schema]
    /\ UNCHANGED handlerRest

\* boot_up: the five steps in order, each returning SUCCESS or not; failing
\* is the step of the database that does not (0 when each does).
boot_up(failing) ==
    /\ handler.made
    /\ handler.boots < MaxBoots
    /\ LET json == ValidateJson(handler.message_schema)
           called == [handler EXCEPT !.boots = @ + 1, !.ran = "none", !.checked = 0,
                                     !.booted = "ERROR"]
           checked == [called EXCEPT !.processed_json = json.processed_json]
       IN  handler' = IF failing \in {1, 2, 3}
                      THEN called
                      ELSE IF json.status # "SUCCESS" \/ failing = 5
                      THEN checked
                      ELSE [checked EXCEPT !.boot_called = TRUE, !.booted = "SUCCESS",
                                           !.succeeded = TRUE]
    /\ UNCHANGED handlerRest

\* run: if not self.processed_json or not self.boot_called: return ERROR
RunRefusesEmpty == handler.processed_json = <<>>
RunRefuses == handler.processed_json = <<>> \/ ~handler.boot_called

\* run: the error, or one check per website of processed_json
run ==
    /\ handler.made
    /\ handler' = IF RunRefuses
                  THEN [handler EXCEPT !.ran = "ERROR", !.checked = 0]
                  ELSE [handler EXCEPT !.ran = "List", !.checked = Len(handler.processed_json)]
    /\ UNCHANGED handlerRest

InitHandler == InitWith({NoTable})
NextHandler ==
    \/ \E schema \in MessageSchemas : handler_init(schema)
    \/ \E failing \in {0, 1, 2, 3, 5} : boot_up(failing)
    \/ run
SpecHandler == InitHandler /\ [][NextHandler]_vars

\* ----------------------------------------------------- the sanitiser
\* Everything but what the call returned.
keptVars == <<argument, verdict, bot, allowed, cycle, handler, lockfile, proc, now, mgrVars, running, task, calls,
              facade, engineVars, ghostVars>>
\* The fragments handed to the where-mode escape: a name alone, or a name,
\* "=" and a value of up to MaxValue pieces.
WhereKeys == { <<"status">>, <<"order">>, <<"Order">>, <<"and">> }
ValuePieces == {"Down", SQ, BT}
WhereValues == UNION { [1..n -> ValuePieces] : n \in 0..MaxValue }
WhereFragments == WhereKeys \cup { k \o <<"=">> \o v : k \in WhereKeys, v \in WhereValues }

call_where_mode ==
    /\ returned = NotReturned
    /\ returned' = [kind |-> "value", value |-> escape_risky_column_names_where_mode(argument)]
    /\ UNCHANGED keptVars

InitWhere == Constructed({NoTable}) /\ argument \in WhereFragments /\ bot = NewBot
NextWhere == call_where_mode
SpecWhere == InitWhere /\ [][NextWhere]_vars

\* The schemas and row lists handed to beautify_table: descriptors of up to
\* two distinct columns, up to MaxRows rows of up to MaxCells cells.
Descriptor(name) == <<name, <<"TEXT">> >>
Schemas ==
    { <<>> } \cup { <<Descriptor(a)>> : a \in {<<"id">>, <<"name">>} }
    \cup { <<Descriptor(<<"id">>), Descriptor(<<"name">>)>>,
            <<Descriptor(<<"name">>), Descriptor(<<"id">>)>> }
Cells == {Key1, Name1}
RowsOfCells == UNION { [1..n -> Cells] : n \in 0..MaxCells }
Contents == UNION { [1..n -> RowsOfCells] : n \in 0..MaxRows }

call_beautify_table ==
    /\ returned = NotReturned
    /\ returned' = beautify_table(argument.column_names, argument.table_content)
    /\ UNCHANGED keptVars

InitBeautify ==
    /\ Constructed({NoTable})
    /\ argument \in [column_names : Schemas, table_content : Contents]
    /\ bot = NewBot
NextBeautify == call_beautify_table
SpecBeautify == InitBeautify /\ [][NextBeautify]_vars

\* ------------------------------------------------ the insert statement
\* The calls of insert_data_into_table: one row of up to MaxCells cells, or a
\* batch of one to MaxRows such rows, into one, two or three columns.
InsertColumnLists ==
    { << <<"id">> >>, ColumnNames, << <<"id">>, <<"order">>, <<"name">> >> }
InsertCalls ==
    { Req("insert_data_into_table", TableName, col, <<>>, <<row>>, FALSE) :
        col \in InsertColumnLists, row \in RowsOfCells }
    \cup { Req("insert_data_into_table", TableName, col, <<>>, data, TRUE) :
             col \in InsertColumnLists, data \in Contents \ {<<>>} }

\* The statement and the values insert_data_into_table hands to
\* run_editing_command for the call in argument.
call_insert_data_into_table ==
    /\ returned = NotReturned
    /\ returned' = [kind |-> "value",
                    value |-> InsertBuild([InitTask EXCEPT !.arg = argument,
                                              !.pc = <<"qb_insert_data_into_table">>],
                                          argument.column).query]
    /\ UNCHANGED keptVars

InitInsert ==
    /\ Constructed({NoTable})
    /\ argument \in InsertCalls
    /\ bot = NewBot
NextInsert == call_insert_data_into_table
SpecInsert == InitInsert /\ [][NextInsert]_vars

\* ------------------------------------------------ the beautified read
\* The column selections of a read of the table and the rows it may hold.
ColumnSelections ==
    { << <<"*">> >>, ColumnNames, << <<"name">>, <<"id">> >>, << <<"id">> >>, << <<"name">> >> }
StoredRows == { <<k, n>> : k \in {Key1, Key2}, n \in {Name1, Name2} }
StoredTables == UNION { [1..n -> StoredRows] : n \in 0..MaxRows }

\* get_data_from_table(table, column, "", beautify=True) when both statements
\* are served: the SELECT of the selected columns, describe_table, and
\* beautify_table(data, resp_list).
call_get_data_from_table ==
    /\ returned = NotReturned
    /\ LET tbl == TableOf(argument.rows)
           sql_command == SelectQuery(TableName,
                                      Join(escape_risky_column_names(argument.column), ", "),
                                      <<>>)
           resp_list == Fetched(sql_command, tbl)
           info == Fetched(<<"PRAGMA table_info('">> \o TableName \o <<"');">>, tbl)
           data == [i \in 1..Len(info) |-> Tail(info[i])]
       IN  returned' = beautify_table(data, resp_list)
    /\ UNCHANGED keptVars

InitSelect ==
    /\ Constructed({NoTable})
    /\ argument \in [column : ColumnSelections, rows : StoredTables]
    /\ bot = NewBot
NextSelect == call_get_data_from_table
SpecSelect == InitSelect /\ [][NextSelect]_vars

\* ------------------------------------------------------ the dead checks
\* config: the status labels, and the members of WebsiteStatus by value.
UP == <<"Up">>
DOWN == <<"Down">>
PARTIALLY_UP == <<"Partially", " ", "Up">>
UNKNOWN_STATUS == <<"Unknown", " ", "Status">>

\* WEBSITE_STATUS: the spellings of a response and the status each stands for.
WEBSITE_STATUS ==
    [key \in { <<"up">>, <<"partially", " ", "up">>, <<"partially", "-", "up">>,
               <<"partially", "_", "up">>, <<"partiallyup">>, <<"down">>,
               <<"unknown", " ", "status">>, <<"unknown", "-", "status">>,
               <<"unknown", "_", "status">>, <<"unknownstatus">> } |->
        IF key = <<"up">> THEN UP
        ELSE IF key = <<"down">> THEN DOWN
        ELSE IF Head(key) \in {"partially", "partiallyup"} THEN PARTIALLY_UP
        ELSE UNKNOWN_STATUS]

\* SQLITE_TABLE_COLUMNS_DEAD_CHECKS:
\* CHECK(response IN ('{DOWN}', '{PARTIALLY_UP}', '{UP}'))
DeadChecksResponseCheck(response) == response \in {DOWN, PARTIALLY_UP, UP}

\* A key of the entry that is missing or holds a value of another type.
JSONDataNotFound == <<"\\JSONDataNotFound">>
DEFAULT_CASE_SENSITIVITY == "False"

\* _validate_deadcheck: the DeadCheck of an entry, or the error code.
validate_deadcheck(check_data) ==
    LET corrupted ==
            \/ check_data.keyword = JSONDataNotFound
            \/ check_data.response = JSONDataNotFound
            \/ Lower(check_data.response) \notin DOMAIN WEBSITE_STATUS
    IN  IF corrupted THEN [kind |-> "error", value |-> <<>>]
        ELSE [kind |-> "value",
              value |-> [keyword |-> check_data.keyword,
                         response |-> WEBSITE_STATUS[Lower(check_data.response)],
                         case_sensitive |-> IF check_data.case_sensitive = "JSONDataNotFound"
                                            THEN DEFAULT_CASE_SENSITIVITY
                                            ELSE check_data.case_sensitive]]

\* _update_dead_checks_table: the response cell of the row written for a
\* DeadCheck, str(item.response.value)
ResponseCell(item) == item.response

\* The entries of a configuration's dead_checks.
Responses ==
    DOMAIN WEBSITE_STATUS
    \cup { UP, <<"UP">>, DOWN, <<"DOWN">>, PARTIALLY_UP, <<"Partially", "-", "Up">>,
           UNKNOWN_STATUS, <<"Unknown", "_", "Status">>, <<"dead">>, <<"up", " ">>, <<>> }
DeadCheckEntries ==
    [keyword : {JSONDataNotFound, <<"error">>},
     response : Responses \cup {JSONDataNotFound},
     case_sensitive : {"JSONDataNotFound", "True", "False"}]

call_validate_deadcheck ==
    /\ returned = NotReturned
    /\ returned' = validate_deadcheck(argument)
    /\ UNCHANGED keptVars

InitDeadCheck ==
    /\ Constructed({NoTable})
    /\ argument \in DeadCheckEntries
    /\ bot = NewBot
NextDeadCheck == call_validate_deadcheck
SpecDeadCheck == InitDeadCheck /\ [][NextDeadCheck]_vars

\* ------------------------------------------------------------ the embed
MAX_ALLOWED_EMBEDDED_FIELDS == 25
\* The items of message_human: a tuple with a key or a value, a tuple whose
\* key and value are blank, and a value that is no tuple.
HumanItems == {"pair", "blank", "text"}
\* The embed while _get_embed_message builds it: the items read so far and
\* the tuples among them that are not blank, field_counter, and the lines of
\* overflow written for tuples and for other values; footer is the number of
\* overflow lines in the footer text once set_footer was called.
NewEmbed ==
    [items |-> 0, pairs |-> 0, field_counter |-> 0, overflow_pairs |-> 0,
     overflow_texts |-> 0, footer |-> 0]

\* if field_counter < MAX_ALLOWED_EMBEDDED_FIELDS
FieldFitsAlways(field_counter) == TRUE
FieldFits(field_counter) == field_counter < MAX_ALLOWED_EMBEDDED_FIELDS

\* embed = Embed(...); a message_human that is no list adds no field
get_embed_message ==
    /\ returned = NotReturned
    /\ \E is_list \in BOOLEAN :
         returned' = [kind |-> IF is_list THEN "loop" ELSE "footer", value |-> NewEmbed]
    /\ UNCHANGED keptVars

\* for item in discord_message.message_human: one turn of the loop
embed_item(item) ==
    /\ returned.kind = "loop"
    /\ returned.value.items < MaxEmbedItems
    /\ LET e == [returned.value EXCEPT !.items = @ + 1]
       IN  returned' =
             [kind |-> "loop",
              value |-> IF item = "text" THEN [e EXCEPT !.overflow_texts = @ + 1]
                        ELSE IF item = "blank" THEN e
                        ELSE IF FieldFits(e.field_counter)
                        THEN [e EXCEPT !.pairs = @ + 1, !.field_counter = @ + 1]
                        ELSE [e EXCEPT !.pairs = @ + 1, !.overflow_pairs = @ + 1]]
    /\ UNCHANGED keptVars

\* footer_message += overflow; embed.set_footer(text=footer_message)
set_footer ==
    /\ returned.kind \in {"loop", "footer"}
    /\ returned' = [kind |-> "embed",
                    value |-> [returned.value EXCEPT
                                 !.footer = returned.value.overflow_pairs
                                            + returned.value.overflow_texts]]
    /\ UNCHANGED keptVars

InitEmbed == InitWith({NoTable})
NextEmbed ==
    \/ get_embed_message
    \/ \E item \in HumanItems : embed_item(item)
    \/ set_footer
SpecEmbed == InitEmbed /\ [][NextEmbed]_vars

\* ------------------------------------------------------------------ claims
\* C1: from a successful initialise_pool until destroy_pool is called, the
\* manager's connection is stored (not None) and open, whatever run_and_commit
\* and run_and_fetch_all calls are made in between and however they end.
C1_ConnectionStaysOpen ==
    opened => (connection # 0 /\ connection \in connOpen)

\* C2: no task waits for the manager's lock while that same task holds it, so
\* every call on an open manager can still return or raise.
C2_NoSelfWait ==
    \A t \in Tasks :
        ~(lockHolder = t /\ \E i \in 1..Len(waiters) : waiters[i] = t)

\* C3: between the execute of a run_and_commit call and its commit, no engine
\* step of another task's run_and_commit call is submitted.
C3_SectionNotEntered == ~intruded

\* A run_and_commit call is between its execute and its commit while another
\* run_and_commit call, which has committed, waits for the lock to close its
\* cursor.
C3_Witness ==
    \E t1 \in Tasks, t2 \in Tasks :
        /\ t1 # t2 /\ section = t1
        /\ task[t2].call = "run_and_commit"
        /\ Top(t2) = "lockwait"
        /\ \E i \in 1..Len(task[t2].pc) : task[t2].pc[i] = "rc_return"

\* C7: a run_and_commit or run_and_fetch_all call during which the engine
\* raised an error of one of the four classes ends by raising RuntimeError.
C7_EngineErrorRaised ==
    \A t \in Tasks :
        (/\ task[t].pc = <<>>
         /\ task[t].op \in {"run_and_commit", "run_and_fetch_all"}
         /\ task[t].caught \in ErrClasses)
        => task[t].outcome = "RuntimeError"

\* The table after one row has been written under the first-column rule: the
\* row with the same first cell replaced in place, else the row added.
Upserted(tbl, line) ==
    IF \E i \in 1..Len(tbl.rows) : tbl.rows[i][1] = line[1]
    THEN [tbl EXCEPT !.rows = [i \in 1..Len(tbl.rows) |->
                                  IF tbl.rows[i][1] = line[1] THEN line ELSE tbl.rows[i]]]
    ELSE [tbl EXCEPT !.rows = Append(tbl.rows, line)]
\* a single-row upsert that the facade forwarded
IsUpsert(t) ==
    /\ task[t].op = "insert_or_update_data_into_table" /\ ~task[t].req.batch
    /\ task[t].outcome # "RuntimeError(method not initialized)"
Done(t) == task[t].pc = <<>> /\ task[t].outcome # "none"

Flagged(req) ==
    \/ check_if_sql_injection(req.table)
    \/ \E i \in 1..Len(req.column) : check_if_sql_injection(req.column[i])
    \/ check_if_sql_injection(req.where)

Occurs(cell, text) ==
    \E j \in 1..Len(text) :
        j + Len(cell) - 1 <= Len(text) /\ SubSeq(text, j, j + Len(cell) - 1) = cell
\* The requests differ in nothing but the cells of their rows.
SameButCells(a, b) ==
    /\ [a EXCEPT !.data = <<>>] = [b EXCEPT !.data = <<>>]
    /\ Len(a.data) = Len(b.data)
    /\ \A i \in 1..Len(a.data) : Len(a.data[i]) = Len(b.data[i])

C11_CancelFreesLock ==
    \A t \in Tasks :
        (/\ task[t].cancelled # "no"
         /\ task[t].op \in {"run_and_commit", "run_and_fetch_all", "is_connection_active"})
        => (/\ lockHolder # t
            /\ \A i \in 1..Len(waiters) : waiters[i] # t)
\* A task was cancelled inside the lock and a later caller holds the lock.
C11_Witness ==
    \E t1 \in Tasks, t2 \in Tasks :
        /\ t1 # t2 /\ task[t1].cancelled = "holding"
        /\ task[t1].op \in {"run_and_commit", "run_and_fetch_all", "is_connection_active"}
        /\ lockHolder = t2 /\ task[t2].pc # <<>>

\* The processes that hold the WSGI lock: acquire_lockfile returned True,
\* the process lives and its lockfile has not become stale since.
LockHolders == {p \in Procs : proc[p].granted /\ proc[p].alive /\ ~proc[p].lapsed}

\* C12: at most one live process holds the WSGI lock at any time, whatever
\* the interleaving of the acquire_lockfile calls, several callers that
\* recover the same stale lockfile included.
C12_OneLockHolder == Cardinality(LockHolders) <= 1

\* A step in which a close() call of task t returns or raises: the awaited
\* destroy_pool has ended, or the instance had no manager left.
CloseReturns(t) ==
    /\ task'[t].op = "close" /\ task'[t].pc = <<>>
    /\ \/ task[t].pc # <<>>
       \/ /\ task[t].pc = <<>> /\ calls' = calls + 1 /\ running' = 0
          /\ \A u \in Tasks \ {t} : task'[u] = task[u]

\* C13: close() raises nothing and leaves the manager's connection cleared
\* and the manager and the boilerplates unbound, whether the instance was
\* opened or not; on an instance that is already closed it changes nothing.
C13_CloseIdempotent ==
    [][\A t \in Tasks :
          CloseReturns(t) =>
              /\ task'[t].outcome = "None"
              /\ ~facade'.sql_manage_connections /\ ~facade'.sql_query_boilerplates
              /\ connection' = 0
              /\ (~facade.sql_manage_connections =>
                    /\ facade'.made = facade.made
                    /\ facade'.sql_query_boilerplates = facade.sql_query_boilerplates
                    /\ UNCHANGED <<mgrVars, engineVars>>)]_vars
\* close() has returned twice on an instance that create() had opened.
C13_Witness ==
    /\ facade.made /\ facade.closes = 2
    /\ \E t \in Tasks : task[t].op = "close" /\ task[t].pc = <<>> /\ task[t].outcome = "None"

\* A create() call has ended and nothing else has run on the instance since.
Created(t) ==
    /\ task[t].op = "create" /\ Done(t)
    /\ \A u \in Tasks \ {t} : task[u].op = "idle"
Connected == connection # 0 /\ connection \in connOpen /\ facade.sql_query_boilerplates

\* C14 as stated: create() raises RuntimeError exactly when aiosqlite.connect
\* failed, then the connection is None and no boilerplates are bound; a
\* failure of tuning statements alone leaves a connected, bound facade.
C14_OpenFailureOnly ==
    \A t \in Tasks :
        Created(t) =>
            /\ (task[t].outcome = "RuntimeError") <=> ("connect" \in task[t].failed)
            /\ (task[t].outcome = "RuntimeError") =>
                    (connection = 0 /\ ~facade.sql_query_boilerplates)
            /\ (task[t].failed = {"pragma"}) => Connected

\* C14 amended: create() raises RuntimeError exactly when aiosqlite.connect or
\* the commit that follows the tuning statements failed, then the connection
\* is None and no boilerplates are bound; otherwise, a failure of tuning
\* statements included, it returns a connected facade with the boilerplates
\* bound.
C14_OpenOrCommitFailure ==
    \A t \in Tasks :
        Created(t) =>
            /\ (task[t].outcome = "RuntimeError")
                    <=> (task[t].failed \cap {"connect", "commit"} # {})
            /\ (task[t].outcome = "RuntimeError") =>
                    (connection = 0 /\ ~facade.sql_query_boilerplates)
            /\ (task[t].failed \subseteq {"pragma"}) =>
                    (task[t].outcome = "success" /\ Connected)
\* A tuning statement failed and create() returned a connected facade.
C14_Witness ==
    \E t \in Tasks :
        /\ Created(t) /\ task[t].failed = {"pragma"}
        /\ task[t].outcome = "success" /\ Connected

\* C15: at most one connection that the manager opened is open, whatever
\* initialise_pool, data and destroy_pool calls have been made.
C15_OneConnectionOpen == Cardinality(connOpen) <= 1

\* C16: the step of run_and_commit that follows the execute commits nothing
\* when the cursor was supplied by the caller.
C16_SuppliedCursorNotCommitted ==
    [][\A t \in Tasks :
          (Top(t) = "rc_executed" /\ task[t].cursor # 0 /\ task'[t] # task[t])
          => UNCHANGED <<db, txn>>]_vars

\* C17: a run_and_commit or run_and_fetch_all call whose cursor's connection
\* was closed when it executed ends by raising the engine's ValueError, which
\* no handler of the manager catches; it returns neither rows nor a code.
C17_ClosedConnectionFails ==
    \A t \in Tasks :
        (task[t].used_closed /\ Done(t))
        => (task[t].outcome = "ValueError" /\ task[t].data = <<>>)
\* A call obtained its own cursor, another task's call closed the connection
\* while it waited for the lock, and it has ended.
C17_Witness ==
    \E t \in Tasks :
        /\ task[t].used_closed /\ Done(t)
        /\ task[t].op \in {"run_and_commit", "run_and_fetch_all"}
        /\ task[t].outcome = "ValueError"

\* C18: a create_table call that follows a successful create_table call with
\* the same valid table name and column list on the open facade, with no
\* engine error and nothing else in flight, returns success and leaves the
\* table as the first call left it.
SecondCreate(t) ==
    /\ Done(t) /\ task[t].op = "create_table"
    /\ task[t].repeats /\ ~Flagged(task[t].req)
    /\ faults = 0 /\ ~task[t].overlapped /\ facade.closes = 0
C19_CombinedCoversComponents ==
    (/\ verdict["sql_injection"] # "none"
     /\ "True" \in {verdict["symbol"], verdict["command"], verdict["logic_gate"]})
    => verdict["sql_injection"] = "True"

\* C20: for a string that contains ";base64" the symbol check returns True
\* exactly when the string is not valid base64.
C20_Base64ShortCircuit ==
    (/\ argument # Null /\ Contains(argument, {";base64"})
     /\ verdict["symbol"] # "none")
    => (verdict["symbol"] = "True" <=> ~is_base64(argument))

\* C21: the scan of a collection answers True for every value that is, or
\* holds at any depth, something that is neither a string, a number nor a list.
RECURSIVE HoldsForeign(_)
HoldsForeign(value) ==
    \/ value.type \notin {"str", "int", "list"}
    \/ \E i \in 1..Len(value.items) : HoldsForeign(value.items[i])
C21_ScanFailsClosed ==
    (verdict["injections_in_strings"] # "none" /\ HoldsForeign(argument))
    => verdict["injections_in_strings"] = "True"

\* C22: for a string without ";base64" the symbol check answers True exactly
\* when the string holds one of ; -- /* */, and for any string the command
\* check answers True exactly when it holds one of the eleven upper-case
\* verbs; a verb in lower case does not count.
Holds(string, pieces) == \E i \in 1..Len(string) : string[i] \in pieces
C22_DetectorsMatchTheirSets ==
    argument # Null =>
        /\ (verdict["symbol"] # "none" /\ ~Holds(argument, {";base64"}))
            => (verdict["symbol"] = "True" <=> Holds(argument, {";", "--", "/*", "*/"}))
        /\ verdict["command"] # "none"
            => (verdict["command"] = "True"
                <=> Holds(argument, {"SELECT", "INSERT", "UPDATE", "DELETE", "DROP", "CREATE",
                                     "ALTER", "TABLE", "UNION", "JOIN", "WHERE"}))
\* "drop;" was answered True by the symbol check and False by the command check
C22_Witness ==
    /\ argument = <<"drop", ";">>
    /\ verdict["symbol"] = "True" /\ verdict["command"] = "False"

\* C23 (as stated): for a fragment key=value whose key is not a risky
\* keyword the where-mode escape returns the key as it is, "=", and the value
\* between single quotes with every single quote of the value doubled.
FragmentKey(item) == SubSeq(item, 1, IndexOf(item, "=") - 1)
FragmentValue(item) == SubSeq(item, IndexOf(item, "=") + 1, Len(item))
PlainFragment(item) ==
    Holds(item, {"="}) /\ Lower(FragmentKey(item)) \notin RISKY_KEYWORDS
Doubled(value) == [i \in 1..Len(value) |-> IF value[i] = SQ THEN SQSQ ELSE value[i]]
Wrapped(value) == value # <<>> /\ value[1] = BT /\ value[Len(value)] = BT
Unquoted(value) ==
    LET from == IF value # <<>> /\ value[1] = SQ THEN 2 ELSE 1
        to == IF Len(value) >= from /\ value[Len(value)] = SQ THEN Len(value) - 1
              ELSE Len(value)
    IN  SubSeq(value, from, to)
Had(schema, row) == 1..Shorter(Len(row), Len(schema))
C24_ShortRowsReshaped ==
    returned.kind # "none" =>
        LET schema == argument.column_names
            content == argument.table_content
        IN  IF Len(schema) = 0 \/ Len(content) = 0
            THEN returned.kind = "error"
            ELSE /\ returned.kind = "value"
                 /\ Len(returned.value) = Len(content)
                 /\ \A v \in 1..Len(content) :
                        /\ DOMAIN returned.value[v]
                            = { schema[k][1] : k \in Had(schema, content[v]) }
                        /\ \A k \in Had(schema, content[v]) :
                            returned.value[v][schema[k][1]] = content[v][k]
\* a row of one cell under a schema of two columns gave a record of one column
C24_Witness ==
    /\ returned.kind = "value"
    /\ Len(argument.column_names) = 2
    /\ \E v \in 1..Len(argument.table_content) :
        /\ Len(argument.table_content[v]) = 1
        /\ DOMAIN returned.value[v] = {argument.column_names[1][1]}

\* C25: a beautified get_data_from_table of all columns that follows a
\* successful insert_data_into_table into the same table on the open facade,
\* with no engine error and nothing else in flight, returns records, one of
\* which holds for every column the value that was inserted.
ReadsBack(t) ==
    /\ Done(t) /\ task[t].op = "get_data_from_table" /\ task[t].req.beautify
    /\ task[t].req.column = << <<"*">> >> /\ task[t].req.where = <<>>
    /\ task[t].inserted # <<>> /\ ~Flagged(task[t].req)
    /\ faults = 0 /\ ~task[t].overlapped /\ facade.closes = 0
C26_AtMostOneRetry == bot.sends <= 2
\* the call was made with recall, both sends failed and it returned ERROR
C26_Witness == bot.sends = 2 /\ bot.result = "ERROR" /\ bot.errors >= 2

\* A batch upsert that the facade forwarded, and one that ran with no other
\* writer on the table.
IsBatchUpsert(t) ==
    /\ task[t].op = "insert_or_update_data_into_table" /\ task[t].req.batch
    /\ task[t].outcome # "RuntimeError(method not initialized)"
Alone(t) == \A u \in Tasks \ {t} : task[u].op \in {"idle", "create"}
KeysUnique(tbl) ==
    \A i \in 1..Len(tbl.rows), j \in 1..Len(tbl.rows) :
        tbl.rows[i][1] = tbl.rows[j][1] => i = j

Interrupted(t) == Done(t) /\ task[t].outcome \notin {"success", "error"}
InTable(line) == \E j \in 1..Len(db.rows) : db.rows[j] = line
OneRow(t) ==
    /\ task[t].op = "insert_or_update_data_into_table" /\ Len(task[t].req.data) = 1
    /\ task[t].outcome # "RuntimeError(method not initialized)"
    /\ Done(t) /\ task[t].cancelled = "no" /\ faults = 0
\* The write the single-row path hands over for the row on table tbl.
WriteOf(req, tbl) ==
    IF KeyPresent(tbl.rows, req.data[1])
    THEN UpdateQuery(req.table, escape_risky_column_names(req.column),
                     escape_risky_column_names_where_mode(KeyPredicate(req.column, req.data[1])))
    ELSE InsertQuery(req.table, escape_risky_column_names(req.column), 1)
ViaEditing(t) ==
    task[t].op \in {"insert_data_into_table", "update_data_in_table",
                    "remove_data_from_table", "drop_data_from_table"}
C32_DestroyPoolNeverRaises ==
    \A t \in Tasks :
        (task[t].op = "destroy_pool" /\ Done(t)) => task[t].outcome = "success"

\* C34: one _get_channel_connection call makes at most two fetch_channel
\* calls, the original and one retry, whatever errors Discord raises.
C34_AtMostTwoFetches == bot.fetches <= 2

\* C33: in every refresh cycle, a cycle that sent a new message for the
\* website (and met no failure of the database) leaves the new message's id
\* as the stored id.
C33_SentIdIsStored ==
    (cycle.pc = "idle" /\ cycle.sent # 0 /\ ~cycle.db_failed)
        => cycle.stored = cycle.sent

\* The process the lockfile stands for: the pid written in it, or the process
\* that created it while nothing is written.
Holder == IF lockfile.written THEN lockfile.pid ELSE lockfile.ino
HolderDied == lockfile.exists /\ Holder \in Procs /\ ~proc[Holder].alive
Reacquired == \E q \in Procs : proc[q].alive /\ proc[q].pc \in {"running", "refresh"}
NoCaller == \A q \in Procs : ~proc[q].alive
\* C35: once the process holding the lock has died, whatever it left in the
\* lockfile, an acquire_lockfile call returns True later (as long as a
\* process is left to call it).
C35_DeadHolderLockReacquired == HolderDied ~> (Reacquired \/ NoCaller)

\* C36 as stated: run checks websites only when the most recent boot_up call
\* returned SUCCESS.
C36_RunNeedsLastBootSuccess ==
    handler.checked > 0 => handler.booted = "SUCCESS"

\* C36: run checks websites only when some boot_up call before it returned
\* SUCCESS and processed_json holds a website; before any boot_up that
\* returned SUCCESS, run returns ERROR without checking any website.
C36_RunNeedsSuccessfulBoot ==
    /\ handler.checked > 0
         => (handler.succeeded /\ handler.checked = Len(handler.processed_json))
    /\ (handler.ran # "none" /\ ~handler.succeeded)
         => (handler.ran = "ERROR" /\ handler.checked = 0)
\* run checked a website after a boot_up that returned ERROR
C36_Witness ==
    handler.ran = "List" /\ handler.checked > 0 /\ handler.booted = "ERROR"

\* The number of "?" between each "(" and the ")" that follows it, in order.
RECURSIVE GroupSizes(_, _)
GroupSizes(text, n) ==
    IF text = <<>> THEN <<>>
    ELSE IF Head(text) = "(" THEN GroupSizes(Tail(text), 0)
    ELSE IF Head(text) = ")" THEN <<n>> \o GroupSizes(Tail(text), 0)
    ELSE IF Head(text) = "?" THEN GroupSizes(Tail(text), n + 1)
    ELSE GroupSizes(Tail(text), n)
\* The rows of the call in argument.
RowsGiven == IF argument.batch THEN argument.data ELSE <<argument.data[1]>>
Selected == IF argument.column = << <<"*">> >> THEN ColumnNames ELSE argument.column
C39_AcceptedResponseCanBeStored ==
    returned.kind = "value" => DeadChecksResponseCheck(ResponseCell(returned.value))

\* C40: an embed never has more than MAX_ALLOWED_EMBEDDED_FIELDS fields,
\* whatever the number of items; every item that is not blank is a field or
\* a line of the footer, the ones beyond the cap being in the footer.
C40_FieldsCappedOverflowInFooter ==
    returned.kind = "embed" =>
        LET e == returned.value
            beyond == IF e.pairs > MAX_ALLOWED_EMBEDDED_FIELDS
                      THEN e.pairs - MAX_ALLOWED_EMBEDDED_FIELDS ELSE 0
        IN  /\ e.field_counter <= MAX_ALLOWED_EMBEDDED_FIELDS
            /\ e.field_counter = e.pairs - beyond
            /\ e.footer = beyond + e.overflow_texts
\* an embed of 27 tuples: 25 fields and two lines in the footer
C40_Witness ==
    /\ returned.kind = "embed"
    /\ returned.value.pairs = 27
    /\ returned.value.field_counter = 25
    /\ returned.value.footer = 2

====
